---- MODULE Spec2Model ----
(***************************************************************************)
(* Overlay lifecycle of the Atlas components: createModal and createDrawer *)
(* with the shared helpers they call (lockScroll, addListener,             *)
(* createFocusTrap).  One overlay instance lives in one document; the      *)
(* browser's timer queue and the events a user can produce are part of     *)
(* the model.                                                              *)
(*                                                                         *)
(* Each subsystem has a specification of its own over the same variables:  *)
(*   Spec         createModal / createDrawer                               *)
(*   SpecTrap     createFocusTrap with the focus of the document           *)
(*   SpecStyle    StyleManager on one element, driven by a caller or by    *)
(*                the glow effect                                          *)
(*   SpecLock     lockScroll called by several overlays of one page        *)
(*   SpecDropdown createDropdown                                           *)
(* A specification keeps the variables of the other subsystems at their    *)
(* initial values.                                                         *)
(***************************************************************************)
EXTENDS Integers, Sequences, FiniteSets, TLC

(* ------------------------------------------------------------------ *)
(* Bounds                                                               *)
(* ------------------------------------------------------------------ *)

\* open() may pass its guard at most this many times in one behaviour
MaxOpens == 2

\* window.scrollY of a page that is scrolled when the overlay is created
MaxScrollY == 1

\* number of show() calls on the toast manager
MaxToasts == 2

\* longest interval, in milliseconds, a function is throttled with
MaxLimit == 3

\* the default of a toast's duration option, in milliseconds
DEFAULT_DURATION == 4000

\* number of distinct panel and tab ids
MaxIds == 3

\* number of callbacks that subscribe to an accordion or to tabs
MaxSubscribers == 1

\* most visible focusable descendants the trap's container has at a time
MaxFocusable == 3

\* most animation-frame callbacks of activate() pending at a time
MaxFrames == 2

\* overlays of one page that call lockScroll
MaxCallers == 2

\* most enabled menu items a dropdown's menu has
MaxItems == 3

\* most setTimeout callbacks of one dropdown pending at the same time
MaxPending == 1

(* ------------------------------------------------------------------ *)
(* Program constants                                                    *)
(* ------------------------------------------------------------------ *)

AnimationTiming == {"instant", "fast", "normal", "slow"}

ANIMATION_DURATION == [instant |-> 0, fast |-> 150, normal |-> 250, slow |-> 400]

\* delay of the drawer's setTimeout(() => focusTrap?.activate(), 50)
FOCUS_TRAP_DELAY == 50

\* delay of the dropdown's setTimeout(() => focusItem(0), 50)
FOCUS_ITEM_DELAY == 50

(* ------------------------------------------------------------------ *)
(* State                                                                *)
(* ------------------------------------------------------------------ *)

VARIABLES
    options,           \* kind of overlay and the options it was created with
    isOpen,            \* let isOpen
    backdropElement,   \* let backdropElement: 0 is null, n > 0 the node of cycle n
    unlockScroll,      \* let unlockScroll: the closure lockScroll() returned
    cleanupListeners,  \* let cleanupListeners: closures returned by addListener
    trapActive,        \* focus trap: let isActive
    trapCleanup,       \* focus trap: let cleanupListeners
    listeners,         \* DOM: listeners attached to event targets
    bodyChildren,      \* DOM: backdrop nodes attached to document.body
    ariaHidden,        \* DOM: element's aria-hidden attribute
    shown,             \* DOM: element displayed (modal display, drawer visibility)
    bodyStyle,         \* DOM: document.body.style.cssText
    scrollY,           \* DOM: window.scrollY
    timers,            \* browser: pending setTimeout callbacks, in creation order
    onOpenCount,       \* number of onOpen invocations so far
    onCloseCount,      \* number of onClose invocations so far
    destroyed,         \* destroy() has been called
    op,                \* the entry point that ran last
    arg,               \* its argument: e.target of a click, 0 when it has none
    wasOpen,           \* isOpen when that entry point was entered
    closeCalls         \* number of close() invocations made by the last step

\* createFocusTrap and the focus of the document
VARIABLES
    trapOptions,       \* the options the trap was created with
    previouslyFocused, \* let previouslyFocused
    focusableElements, \* let focusableElements: the last snapshot
    activeElement,     \* DOM: document.activeElement
    tabindex,          \* DOM: the container's tabindex attribute
    focusable,         \* DOM: number of visible focusable descendants of the container
    frames,            \* browser: pending requestAnimationFrame callbacks of activate()
    prevented,         \* e.defaultPrevented of the last key event
    focusAtActivate,   \* the element that had focus when the trap was activated
    returns            \* focus() calls deactivate() made since that activation

\* one StyleManager and the one element it manages
VARIABLES
    elementStyle,      \* DOM: element.style, property -> inline value ("" is unset)
    originalStyles,    \* StyleManager.originalStyles, the element's entry
    glowState,         \* glow(): its options and the closures' variables
    session,           \* what the caller saw since the manager's record was last empty
    writes             \* writes to element.style made by the last step

\* lockScroll shared by the overlays of one page
VARIABLES
    tokens,            \* per caller, the unlock closure lockScroll returned to it
    seen,              \* per caller, the body style and scrollY it called lockScroll at
    closeOrder         \* the modals closed since the page was last unlocked, in order

\* createDropdown; it shares isOpen, cleanupListeners, listeners, timers, shown
\* (the menu's visibility) and the callback counts with the other overlays
VARIABLES
    focusedIndex,      \* let focusedIndex
    menuItems,         \* let menuItems: the items found by the last open()
    enabledItems,      \* DOM: number of enabled items in the menu
    ariaExpanded,      \* DOM: the trigger's aria-expanded attribute
    run                \* ArrowDown presses since open() with nothing else between

\* the components without an overlay: createAccordion, createTabs and
\* createToastManager
VARIABLES
    accordion,         \* the accordion: its options, openPanels and subscribers
    tabs,              \* the tabs: tabIds, activeTab and subscribers
    toastManager,      \* the toast manager: toasts, containerElement, the DOM nodes
    throttled          \* the function throttle() returned: inThrottle, lastResult

progVars == <<options, isOpen, backdropElement, unlockScroll, cleanupListeners,
              trapActive, trapCleanup, listeners, bodyChildren, ariaHidden,
              shown, bodyStyle, scrollY, timers, onOpenCount, onCloseCount>>

\* what only createFocusTrap's specification changes
focusVars == <<trapOptions, previouslyFocused, focusableElements, activeElement,
               tabindex, focusable, frames, prevented, focusAtActivate, returns>>

\* what only StyleManager's specification changes
styleVars == <<elementStyle, originalStyles, glowState, session, writes>>

\* what only lockScroll's specification changes
lockVars == <<tokens, seen, closeOrder>>

\* what only createDropdown's specification changes
dropdownVars == <<focusedIndex, menuItems, enabledItems, ariaExpanded, run>>

\* what only the specifications of the accordion, the tabs and the toast
\* manager change
componentVars == <<accordion, tabs, toastManager, throttled>>

vars == <<options, isOpen, backdropElement, unlockScroll, cleanupListeners,
          trapActive, trapCleanup, listeners, bodyChildren, ariaHidden,
          shown, bodyStyle, scrollY, timers, onOpenCount, onCloseCount,
          destroyed, op, arg, wasOpen, closeCalls, focusVars, styleVars,
          lockVars, dropdownVars, componentVars>>

\* createAccordion has not been called
NoAccordion ==
    [status |-> "none", panelIds |-> <<>>, defaultOpen |-> <<>>,
     collapsible |-> TRUE, multiple |-> FALSE, onChange |-> FALSE,
     openPanels |-> {}, subscribers |-> <<>>, calls |-> <<>>]

\* createTabs has not been called
NoTabs ==
    [status |-> "none", tabIds |-> <<>>, defaultTab |-> 0, onChange |-> FALSE,
     activeTab |-> 0, subscribers |-> <<>>, calls |-> <<>>]

\* createToastManager has not been called
NoToastManager ==
    [status |-> "none", maxVisible |-> 0, toasts |-> <<>>, containerElement |-> 0,
     attached |-> {}, nodes |-> 0, toastCounter |-> 0, items |-> <<>>,
     hung |-> FALSE]

\* throttle has not been called
NoThrottle ==
    [limit |-> 0, inThrottle |-> FALSE, lastResult |-> "undefined",
     elapsed |-> 0 - 1, cancelled |-> FALSE, ran |-> FALSE]

\* the page has no accordion, no tabs, no toast manager and no throttled
\* function
NoComponents ==
    /\ accordion = NoAccordion
    /\ tabs = NoTabs
    /\ toastManager = NoToastManager
    /\ throttled = NoThrottle

\* the state as one value, so that a handler is a function from state to state
Cur == [options |-> options, isOpen |-> isOpen, backdropElement |-> backdropElement,
        unlockScroll |-> unlockScroll, cleanupListeners |-> cleanupListeners,
        trapActive |-> trapActive, trapCleanup |-> trapCleanup,
        listeners |-> listeners, bodyChildren |-> bodyChildren,
        ariaHidden |-> ariaHidden, shown |-> shown, bodyStyle |-> bodyStyle,
        scrollY |-> scrollY, timers |-> timers, onOpenCount |-> onOpenCount,
        onCloseCount |-> onCloseCount, destroyed |-> destroyed,
        op |-> op, arg |-> 0, closeCalls |-> 0]

\* the state on entry to the entry point `name` called with argument a
Enter(name, a) == [Cur EXCEPT !.op = name, !.arg = a]

\* the overlay's variables after a step that left the state s
CommitOverlay(s) ==
    /\ options' = s.options
    /\ isOpen' = s.isOpen
    /\ backdropElement' = s.backdropElement
    /\ unlockScroll' = s.unlockScroll
    /\ cleanupListeners' = s.cleanupListeners
    /\ trapActive' = s.trapActive
    /\ trapCleanup' = s.trapCleanup
    /\ listeners' = s.listeners
    /\ bodyChildren' = s.bodyChildren
    /\ ariaHidden' = s.ariaHidden
    /\ shown' = s.shown
    /\ bodyStyle' = s.bodyStyle
    /\ scrollY' = s.scrollY
    /\ timers' = s.timers
    /\ onOpenCount' = s.onOpenCount
    /\ onCloseCount' = s.onCloseCount
    /\ destroyed' = s.destroyed
    /\ closeCalls' = s.closeCalls
    /\ op' = s.op
    /\ arg' = s.arg
    /\ wasOpen' = isOpen

Commit(s) ==
    /\ CommitOverlay(s)
    /\ UNCHANGED <<focusVars, styleVars, lockVars, dropdownVars, componentVars>>

Range(q) == {q[i] : i \in 1..Len(q)}

(* ------------------------------------------------------------------ *)
(* shared/dom: lockScroll, addListener                                  *)
(* ------------------------------------------------------------------ *)

\* body.style.cssText before any lock
OriginalStyle == [position |-> "static", top |-> 0]

\* the cssText lockScroll writes: position: fixed; top: -${scrollY}px
PinnedStyle(y) == [position |-> "fixed", top |-> 0 - y]

\* unlockScroll = null
NoUnlock == [set |-> FALSE, originalStyle |-> OriginalStyle, scrollY |-> 0]

\* lockScroll that saves the body's style and leaves the body as it is
lockScroll_Unpinned(s) ==
    [s EXCEPT !.unlockScroll = [set |-> TRUE, originalStyle |-> s.bodyStyle,
                                scrollY |-> s.scrollY]]

\* lockScroll that reads body.style.cssText after it has pinned the body
lockScroll_CaptureAfterPin(s) ==
    [s EXCEPT !.unlockScroll = [set |-> TRUE, originalStyle |-> PinnedStyle(s.scrollY),
                                scrollY |-> s.scrollY],
              !.bodyStyle = PinnedStyle(s.scrollY),
              !.scrollY = 0]

\* lockScroll(): captures scrollY and the body's cssText, pins the body and
\* returns the closure that restores both.  A body laid out position: fixed
\* cannot scroll, so window.scrollY reads 0 while it is pinned.
lockScroll(s) ==
    [s EXCEPT !.unlockScroll = [set |-> TRUE, originalStyle |-> s.bodyStyle,
                                scrollY |-> s.scrollY],
              !.bodyStyle = PinnedStyle(s.scrollY),
              !.scrollY = 0]

\* the closure without its window.scrollTo(0, scrollY)
RunUnlock_StyleOnly(s, u) ==
    IF u.set THEN [s EXCEPT !.bodyStyle = u.originalStyle] ELSE s

\* the closure lockScroll returned, called
RunUnlock(s, u) ==
    IF u.set
    THEN [s EXCEPT !.bodyStyle = u.originalStyle, !.scrollY = u.scrollY]
    ELSE s

\* the overlays of the page that lock the scroll
Callers == 1..MaxCallers

\* what a caller saw before it has called lockScroll
NotSeen == [style |-> OriginalStyle, y |-> 0, alone |-> FALSE, with |-> {}]

\* no overlay holds an unlock closure
NoScrollLock ==
    /\ tokens = [c \in Callers |-> NoUnlock]
    /\ seen = [c \in Callers |-> NotSeen]
    /\ closeOrder = <<>>

Listener(target, node, type, handler) ==
    [target |-> target, node |-> node, type |-> type, handler |-> handler]

\* addListener: target.addEventListener(type, listener); the DOM keeps one
\* entry per (target, type, listener)
addListener(s, l) == [s EXCEPT !.listeners = @ \cup {l}]

\* cleanups.forEach((cleanup) => cleanup())
RunCleanups(s, cleanups) == [s EXCEPT !.listeners = @ \ Range(cleanups)]

(* ------------------------------------------------------------------ *)
(* shared/focus-trap                                                    *)
(* ------------------------------------------------------------------ *)

TrapKeyDown == Listener("document", 0, "keydown", "trap.handleKeyDown")
TrapFocusOut == Listener("element", 0, "focusout", "trap.handleFocusOut")

activate(s) ==
    IF s.trapActive THEN s
    ELSE [addListener(addListener(s, TrapKeyDown), TrapFocusOut)
             EXCEPT !.trapActive = TRUE,
                    !.trapCleanup = @ \o <<TrapKeyDown, TrapFocusOut>>]

deactivate(s) ==
    IF ~s.trapActive THEN s
    ELSE [RunCleanups(s, s.trapCleanup)
             EXCEPT !.trapActive = FALSE,
                    !.trapCleanup = <<>>]

\* Nodes of the document.  The visible focusable descendants of the container
\* are 1..focusable in document order; Before and After are focusable elements
\* of the page that precede and follow the container.
Body == 0
Container == 0 - 1
Before == 0 - 2
After == 0 - 3

\* previouslyFocused = null
NoElement == 0 - 4

\* the state of one focus trap and the document it lives in, as one value
TrapCur == [trapActive |-> trapActive, trapCleanup |-> trapCleanup,
            listeners |-> listeners, options |-> trapOptions,
            previouslyFocused |-> previouslyFocused,
            focusableElements |-> focusableElements,
            activeElement |-> activeElement, tabindex |-> tabindex,
            focusable |-> focusable, frames |-> frames, prevented |-> prevented,
            returns |-> returns]

\* container.contains(node)
Inside(node) == node = Container \/ node >= 1

\* the element can take focus: it is in the document and focusable
IsFocusable(t, node) ==
    \/ node \in {Before, After}
    \/ node \in 1..t.focusable
    \/ node = Container /\ t.tabindex # "absent"

\* node.focus()
focus(t, node) ==
    IF IsFocusable(t, node) THEN [t EXCEPT !.activeElement = node] ELSE t

\* getFocusableElements(container)
getFocusableElements(t) == [i \in 1..t.focusable |-> i]

updateElements(t) == [t EXCEPT !.focusableElements = getFocusableElements(t)]

\* handleFocusOut(e) with e.relatedTarget the node the focus is going to
\* (NoElement is null); it works on the snapshot, not on the container
handleFocusOut(t, relatedTarget) ==
    IF ~t.trapActive THEN t
    ELSE IF relatedTarget # NoElement /\ ~Inside(relatedTarget)
              /\ Len(t.focusableElements) > 0
         THEN focus(t, t.focusableElements[1])
         ELSE t

\* the browser moves the focus to `target`: the element losing it is blurred
\* first, and a focusout from inside the container reaches the container's
\* listener; a focus() call made by the listener replaces the browser's move
moveFocus(t, target) ==
    IF Inside(t.activeElement) /\ TrapFocusOut \in t.listeners
    THEN LET t1 == handleFocusOut([t EXCEPT !.activeElement = Body],
                                  IF target = Body THEN NoElement ELSE target)
         IN IF t1.activeElement # Body THEN t1
            ELSE [t1 EXCEPT !.activeElement = target]
    ELSE [t EXCEPT !.activeElement = target]

\* handleKeyDown without the wrap from the last element to the first
handleKeyDown_NoWrap(t, shiftKey) ==
    IF ~t.trapActive THEN t
    ELSE LET t1 == updateElements(t)
             n == Len(t1.focusableElements)
         IN IF n = 0 THEN [t1 EXCEPT !.prevented = TRUE]
            ELSE IF shiftKey /\ t1.activeElement \in {t1.focusableElements[1], Container}
                 THEN focus([t1 EXCEPT !.prevented = TRUE], t1.focusableElements[n])
                 ELSE t1

\* handleKeyDown without the branch for an empty list
handleKeyDown_NoEmptyCheck(t, shiftKey) ==
    IF ~t.trapActive THEN t
    ELSE LET t1 == updateElements(t)
             n == Len(t1.focusableElements)
         IN IF n = 0 THEN t1
            ELSE IF shiftKey
                 THEN IF t1.activeElement \in {t1.focusableElements[1], Container}
                      THEN focus([t1 EXCEPT !.prevented = TRUE], t1.focusableElements[n])
                      ELSE t1
                 ELSE IF t1.activeElement = t1.focusableElements[n]
                      THEN focus([t1 EXCEPT !.prevented = TRUE], t1.focusableElements[1])
                      ELSE t1

\* handleKeyDown(e) with e.key === 'Tab' and e.shiftKey = shiftKey
handleKeyDown(t, shiftKey) ==
    IF ~t.trapActive THEN t
    ELSE LET t1 == updateElements(t)
             n == Len(t1.focusableElements)
         IN IF n = 0 THEN [t1 EXCEPT !.prevented = TRUE]
            ELSE IF shiftKey
                 THEN IF t1.activeElement \in {t1.focusableElements[1], Container}
                      THEN focus([t1 EXCEPT !.prevented = TRUE], t1.focusableElements[n])
                      ELSE t1
                 ELSE IF t1.activeElement = t1.focusableElements[n]
                      THEN focus([t1 EXCEPT !.prevented = TRUE], t1.focusableElements[1])
                      ELSE t1

\* activate() without its `if (isActive) return`
trapActivate_Unguarded(t) ==
    LET t1 == activate([t EXCEPT !.trapActive = FALSE])
        t2 == updateElements([t1 EXCEPT !.previouslyFocused = t1.activeElement])
    IN [t2 EXCEPT !.frames = @ + 1]

\* activate(), whole: the return target, the snapshot, the initial focus
\* scheduled for the next animation frame, the listeners
trapActivate(t) ==
    IF t.trapActive THEN t
    ELSE LET t1 == activate(t)
             t2 == updateElements([t1 EXCEPT !.previouslyFocused = t1.activeElement])
         IN [t2 EXCEPT !.frames = @ + 1]

\* the callback activate() gave to requestAnimationFrame
InitialFocusFrame(t) ==
    IF t.options.initialFocus = "first" /\ Len(t.focusableElements) > 0
    THEN focus(t, t.focusableElements[1])
    ELSE IF t.options.initialFocus = "container"
         THEN focus([t EXCEPT !.tabindex = "-1"], Container)
         ELSE t

\* container.removeAttribute('tabindex'): an element that stops being
\* focusable loses the focus to the body
removeTabindex(t) ==
    [t EXCEPT !.tabindex = "absent",
              !.activeElement = IF @ = Container THEN Body ELSE @]

\* deactivate(), whole
trapDeactivate(t) ==
    IF ~t.trapActive THEN t
    ELSE LET t1 == deactivate(t)
             t2 == IF t1.tabindex = "-1" THEN removeTabindex(t1) ELSE t1
             t3 == IF t2.options.returnFocus = "previous"
                   THEN IF t2.previouslyFocused # NoElement
                        THEN [focus(t2, t2.previouslyFocused) EXCEPT !.returns = @ + 1]
                        ELSE t2
                   ELSE [focus(t2, After) EXCEPT !.returns = @ + 1]
         IN [t3 EXCEPT !.previouslyFocused = NoElement]

\* the focus trap before createFocusTrap is used
NoFocusTrap ==
    /\ trapOptions = [initialFocus |-> "first", returnFocus |-> "previous"]
    /\ previouslyFocused = NoElement
    /\ focusableElements = <<>>
    /\ activeElement = Body
    /\ tabindex = "absent"
    /\ focusable = 0
    /\ frames = 0
    /\ prevented = FALSE
    /\ focusAtActivate = NoElement
    /\ returns = 0

\* focusTrap?.activate() / focusTrap?.deactivate(): focusTrap is null unless
\* the overlay was created with trapFocus
FocusTrapActivate(s) == IF s.options.trapFocus THEN activate(s) ELSE s
FocusTrapDeactivate(s) == IF s.options.trapFocus THEN deactivate(s) ELSE s

(* ------------------------------------------------------------------ *)
(* effects/utils/style: StyleManager; effects/glow                     *)
(* ------------------------------------------------------------------ *)

Properties == {"opacity", "box-shadow"}

\* inline values a page or a caller writes; "" is the unset property
StyleValues ==
    [p \in Properties |->
        IF p = "opacity" THEN {"", "0.5", "0.9"} ELSE {"", "0px 0px 10px red"}]

\* the shadowValue strings applyGlow builds: at rest, hovered, mid-pulse
GlowBase == "0 0 20px 10px #3b82f6"
GlowHover == "0 0 24px 18px #3b82f6"
GlowPulse == "0 0 20px 7px #3b82f6"

\* originalStyles has no entry for the element
NoEntry == [has |-> FALSE, entries |-> <<>>]

\* glow() has not been called
NoGlow == [phase |-> "idle", looping |-> FALSE, frame |-> FALSE,
           listening |-> FALSE, before |-> "", disturbed |-> FALSE]

\* the manager and its element as one value
StyleCur == [elementStyle |-> elementStyle, originalStyles |-> originalStyles,
             glow |-> glowState, writes |-> 0]

\* elementStyles.has(property)
MapHas(entries, property) == \E i \in 1..Len(entries) : entries[i][1] = property

\* elementStyles.get(property), for a property the map has
MapGet(entries, property) ==
    entries[CHOOSE i \in 1..Len(entries) : entries[i][1] = property][2]

\* elementStyles.set(property, value): a new key goes last, a known key
\* keeps its place
MapSet(entries, property, value) ==
    IF MapHas(entries, property)
    THEN [i \in 1..Len(entries) |->
             IF entries[i][1] = property THEN <<property, value>> ELSE entries[i]]
    ELSE Append(entries, <<property, value>>)

\* element.style.removeProperty(property)
removeProperty(m, property) ==
    [m EXCEPT !.elementStyle[property] = "", !.writes = @ + 1]

\* element.style.setProperty(property, value): an empty value removes the
\* property
setProperty(m, property, value) ==
    [m EXCEPT !.elementStyle[property] = value, !.writes = @ + 1]

\* saveStyle without `!elementStyles.has(property)`
saveStyle_Overwrite(m, property) ==
    [m EXCEPT !.originalStyles =
        [has |-> TRUE,
         entries |-> MapSet(m.originalStyles.entries, property,
                            m.elementStyle[property])]]

saveStyle(m, property) ==
    LET m1 == IF ~m.originalStyles.has
              THEN [m EXCEPT !.originalStyles = [has |-> TRUE, entries |-> <<>>]]
              ELSE m
    IN IF ~MapHas(m1.originalStyles.entries, property)
       THEN [m1 EXCEPT !.originalStyles.entries =
                MapSet(@, property, m1.elementStyle[property])]
       ELSE m1

setStyle(m, property, value) ==
    setProperty(saveStyle(m, property), property, value)

\* setStyles(element, styles): styles as the sequence Object.entries gives
RECURSIVE setStyles(_, _)
setStyles(m, styles) ==
    IF styles = <<>> THEN m
    ELSE setStyles(setStyle(m, Head(styles)[1], Head(styles)[2]), Tail(styles))

\* elementStyles.forEach of restore
RECURSIVE RestoreEntries(_, _)
RestoreEntries(m, entries) ==
    IF entries = <<>> THEN m
    ELSE LET property == Head(entries)[1]
             value == Head(entries)[2]
         IN RestoreEntries(IF value = ""
                           THEN removeProperty(m, property)
                           ELSE setProperty(m, property, value),
                           Tail(entries))

\* restore without this.originalStyles.delete(element)
restore_NoDelete(m) ==
    IF ~m.originalStyles.has THEN m
    ELSE RestoreEntries(m, m.originalStyles.entries)

restore(m) ==
    IF ~m.originalStyles.has THEN m
    ELSE [RestoreEntries(m, m.originalStyles.entries)
             EXCEPT !.originalStyles = NoEntry]

restoreAll(m) == IF m.originalStyles.has THEN restore(m) ELSE m

\* clear(element) and clear()
clear(m) == [m EXCEPT !.originalStyles = NoEntry]

applyGlow(m, shadowValue) == setStyle(m, "box-shadow", shadowValue)

\* glow(element, {animated, interactive}) with shouldReduceMotion() = reduceMotion
glow(m, animated, interactive, reduceMotion) ==
    LET m1 == IF animated /\ ~reduceMotion
              THEN [m EXCEPT !.glow.looping = TRUE, !.glow.frame = TRUE]
              ELSE applyGlow(m, GlowBase)
    IN [m1 EXCEPT !.glow.listening = interactive,
                  !.glow.phase = "on",
                  !.glow.before = m.elementStyle["box-shadow"],
                  !.glow.disturbed = FALSE]

\* the callback of createSimpleAnimationLoop: one frame of the pulse
animate(m) ==
    IF ~m.glow.looping THEN [m EXCEPT !.glow.frame = FALSE]
    ELSE applyGlow(m, GlowPulse)

handleMouseEnter(m) == applyGlow(m, GlowHover)
handleMouseLeave(m) == applyGlow(m, GlowBase)

\* the cleanup function glow() returned
cleanup(m) ==
    restore([m EXCEPT !.glow.looping = FALSE, !.glow.frame = FALSE,
                      !.glow.listening = FALSE, !.glow.phase = "off"])

\* a property no setStyle has touched since the record was last empty
Untouched == "untouched"

NoSession == [baseline |-> [p \in Properties |-> Untouched],
              count |-> [p \in Properties |-> 0],
              restores |-> 0]

\* the StyleManager before it is used
NoStyleManager ==
    /\ elementStyle = [p \in Properties |-> ""]
    /\ originalStyles = NoEntry
    /\ glowState = NoGlow
    /\ session = NoSession
    /\ writes = 0

(* ------------------------------------------------------------------ *)
(* createModal / createDrawer                                           *)
(* ------------------------------------------------------------------ *)

duration(s) == ANIMATION_DURATION[s.options.animation]

BackdropClick(n) == Listener("backdrop", n, "click", "handleBackdropClick")
EscapeKey == Listener("document", 0, "keydown", "handleEscapeKey")

\* a pending setTimeout callback: rem is the time left; cyc (the number of
\* the open() it belongs to) and click (it was set by a close() that a
\* backdrop click called) identify it
Timer(kind, rem, cyc, click) ==
    [kind |-> kind, rem |-> rem, cyc |-> cyc, click |-> click]

\* OpenBackdrop without document.body.appendChild(backdropElement)
OpenBackdrop_NoAppend(s) ==
    IF s.options.backdrop
    THEN LET n == s.onOpenCount + 1
             s1 == [s EXCEPT !.backdropElement = n]
         IN IF s.options.closeOnBackdrop
            THEN [addListener(s1, BackdropClick(n))
                     EXCEPT !.cleanupListeners = @ \o <<BackdropClick(n)>>]
            ELSE s1
    ELSE s

\* open(), the part that creates and appends the backdrop
OpenBackdrop(s) ==
    IF s.options.backdrop
    THEN LET n == s.onOpenCount + 1
             s1 == [s EXCEPT !.backdropElement = n, !.bodyChildren = @ \cup {n}]
         IN IF s.options.closeOnBackdrop
            THEN [addListener(s1, BackdropClick(n))
                     EXCEPT !.cleanupListeners = @ \o <<BackdropClick(n)>>]
            ELSE s1
    ELSE s

\* open(), the part that registers the document-level Escape listener
OpenEscape(s) ==
    IF s.options.closeOnEscape /\ ~s.options.trapFocus
    THEN [addListener(s, EscapeKey) EXCEPT !.cleanupListeners = @ \o <<EscapeKey>>]
    ELSE s

\* open(), the focus trap: the modal activates it in the call, the drawer
\* schedules the activation FOCUS_TRAP_DELAY ms later
OpenTrap(s) ==
    IF s.options.kind = "modal"
    THEN FocusTrapActivate(s)
    ELSE [s EXCEPT !.timers = Append(@, Timer("activate", FOCUS_TRAP_DELAY,
                                                s.onOpenCount + 1, FALSE))]

open(s) ==
    IF s.isOpen THEN s
    ELSE LET s1 == lockScroll([s EXCEPT !.isOpen = TRUE])
             s2 == OpenBackdrop(s1)
             s3 == [s2 EXCEPT !.shown = TRUE, !.ariaHidden = "false"]
             s4 == OpenEscape(s3)
             s5 == OpenTrap(s4)
         IN [s5 EXCEPT !.onOpenCount = @ + 1]

\* close without its `if (!isOpen) return`
close_Unguarded(s) ==
    LET c == [s EXCEPT !.closeCalls = @ + 1]
        s1 == FocusTrapDeactivate([c EXCEPT !.isOpen = FALSE])
    IN [s1 EXCEPT !.timers = Append(@, Timer("close", duration(s1),
                                             s1.onOpenCount,
                                             s1.op = "clickBackdrop"))]

\* close() that releases open()'s listeners before `await animateOut()`
close_CleanupFirst(s) ==
    LET c == [s EXCEPT !.closeCalls = @ + 1]
    IN IF ~c.isOpen THEN c
       ELSE LET s1 == FocusTrapDeactivate([c EXCEPT !.isOpen = FALSE])
                s2 == [RunCleanups(s1, s1.cleanupListeners)
                          EXCEPT !.cleanupListeners = <<>>]
            IN [s2 EXCEPT !.timers = Append(@, Timer("close", duration(s2),
                                                     s2.onOpenCount,
                                                     s2.op = "clickBackdrop"))]

\* close() up to `await animateOut()`: the synchronous part
close(s) ==
    LET c == [s EXCEPT !.closeCalls = @ + 1]
    IN IF ~c.isOpen THEN c
       ELSE LET s1 == FocusTrapDeactivate([c EXCEPT !.isOpen = FALSE])
            IN [s1 EXCEPT !.timers = Append(@, Timer("close", duration(s1),
                                                     s1.onOpenCount,
                                                     s1.op = "clickBackdrop"))]

\* close() after `await animateOut()`: runs when the exit timer fires
CloseContinuation(s) ==
    LET s1 == [s EXCEPT !.shown = FALSE, !.ariaHidden = "true"]
        s2 == IF s1.backdropElement # 0
              THEN [s1 EXCEPT !.bodyChildren = @ \ {s1.backdropElement},
                              !.backdropElement = 0]
              ELSE s1
        s3 == [RunCleanups(s2, s2.cleanupListeners) EXCEPT !.cleanupListeners = <<>>]
        s4 == [RunUnlock(s3, s3.unlockScroll) EXCEPT !.unlockScroll = NoUnlock]
    IN [s4 EXCEPT !.onCloseCount = @ + 1]

toggle(s) == IF s.isOpen THEN close(s) ELSE open(s)

destroy(s) ==
    LET s1 == IF s.isOpen
              THEN LET d1 == FocusTrapDeactivate(s)
                       d2 == [d1 EXCEPT !.shown = FALSE, !.ariaHidden = "true",
                                        !.bodyChildren = @ \ {d1.backdropElement}]
                       d3 == RunCleanups(d2, d2.cleanupListeners)
                   IN RunUnlock(d3, d3.unlockScroll)
              ELSE s
    IN [s1 EXCEPT !.ariaHidden = "absent", !.destroyed = TRUE]

\* a node inside the backdrop node n
ChildOf(n) == 0 - n

\* handleBackdropClick(e): target is the node e.target
handleBackdropClick(s, target) ==
    IF s.options.closeOnBackdrop /\ target = s.backdropElement
    THEN close(s) ELSE s

\* handleEscapeKey(e) with e.key === 'Escape'
handleEscapeKey(s) ==
    IF s.options.closeOnEscape /\ s.isOpen THEN close(s) ELSE s

\* the trap's handleKeyDown(e) with e.key === 'Escape'; onEscape is
\* () => close() when closeOnEscape, undefined otherwise
trapHandleKeyDown(s) ==
    IF ~s.trapActive THEN s
    ELSE IF s.options.closeOnEscape THEN close(s) ELSE s

(* ------------------------------------------------------------------ *)
(* createDropdown                                                       *)
(* ------------------------------------------------------------------ *)

DocClick == Listener("document", 0, "click", "handleClickOutside")
MenuKeyDown == Listener("menu", 0, "keydown", "handleMenuKeyDown")
MenuClick == Listener("menu", 0, "click", "handleItemClick")
TriggerClick == Listener("trigger", 0, "click", "handleTriggerClick")
TriggerKeyDown == Listener("trigger", 0, "keydown", "handleTriggerKeyDown")

\* no dropdown has been created
NoDropdown ==
    /\ focusedIndex = 0 - 1
    /\ menuItems = <<>>
    /\ enabledItems = 0
    /\ ariaExpanded = "absent"
    /\ run = 0 - 1

\* the dropdown's state as one value: the overlay's and its own
DropCur == [Cur EXCEPT !.arg = 0] @@
           [focusedIndex |-> focusedIndex, menuItems |-> menuItems,
            enabledItems |-> enabledItems, ariaExpanded |-> ariaExpanded]

\* getMenuItems(): the enabled items of the menu, in document order
getMenuItems(s) == [i \in 1..s.enabledItems |-> i]

updateMenuItems(s) == [s EXCEPT !.menuItems = getMenuItems(s)]

updateTriggerAria(s) ==
    [s EXCEPT !.ariaExpanded = IF s.isOpen THEN "true" ELSE "false"]

\* focusItem without `if (index >= menuItems.length) index = 0`
focusItem_NoWrap(s, index) ==
    IF Len(s.menuItems) = 0 THEN s
    ELSE [s EXCEPT !.focusedIndex = IF index < 0 THEN Len(s.menuItems) - 1 ELSE index]

focusItem(s, index) ==
    IF Len(s.menuItems) = 0 THEN s
    ELSE LET i1 == IF index < 0 THEN Len(s.menuItems) - 1 ELSE index
             i2 == IF i1 >= Len(s.menuItems) THEN 0 ELSE i1
         IN [s EXCEPT !.focusedIndex = i2]

dropdownOpen(s) ==
    IF s.isOpen THEN s
    ELSE LET s1 == updateMenuItems([s EXCEPT !.isOpen = TRUE])
             s2 == updateTriggerAria([s1 EXCEPT !.focusedIndex = 0 - 1])
             s3 == addListener(addListener(addListener(s2, DocClick), MenuKeyDown),
                               MenuClick)
         IN [s3 EXCEPT !.cleanupListeners = @ \o <<DocClick, MenuKeyDown, MenuClick>>,
                       !.shown = TRUE,
                       !.onOpenCount = @ + 1]

\* close() up to `await animateOut()`
\* close() that leaves `isOpen = false` to the exit timer
dropdownClose_FlipLater(s) ==
    LET c == [s EXCEPT !.closeCalls = @ + 1]
    IN IF ~c.isOpen THEN c
       ELSE LET s1 == updateTriggerAria(c)
                s2 == [RunCleanups(s1, s1.cleanupListeners)
                          EXCEPT !.focusedIndex = 0 - 1, !.cleanupListeners = <<>>]
            IN [s2 EXCEPT !.timers = Append(@, Timer("close", duration(s2),
                                                     s2.onOpenCount, FALSE))]

dropdownClose(s) ==
    LET c == [s EXCEPT !.closeCalls = @ + 1]
    IN IF ~c.isOpen THEN c
       ELSE LET s1 == updateTriggerAria([c EXCEPT !.isOpen = FALSE])
                s2 == [RunCleanups(s1, s1.cleanupListeners)
                          EXCEPT !.focusedIndex = 0 - 1, !.cleanupListeners = <<>>]
            IN [s2 EXCEPT !.timers = Append(@, Timer("close", duration(s2),
                                                     s2.onOpenCount, FALSE))]

\* the exit timer of animateOut and the rest of close() after the await
DropdownCloseContinuation(s) ==
    [s EXCEPT !.shown = FALSE, !.onCloseCount = @ + 1]

dropdownToggle(s) == IF s.isOpen THEN dropdownClose(s) ELSE dropdownOpen(s)

\* destroyWithTrigger()
dropdownDestroy(s) ==
    LET s1 == [s EXCEPT !.listeners = @ \ {TriggerClick, TriggerKeyDown}]
        s2 == IF s1.isOpen
              THEN RunCleanups([s1 EXCEPT !.shown = FALSE], s1.cleanupListeners)
              ELSE s1
    IN [s2 EXCEPT !.ariaExpanded = "absent", !.destroyed = TRUE]

\* selectItem(item): onSelect, then close() when closeOnSelect
selectItem(s) == IF s.options.closeOnSelect THEN dropdownClose(s) ELSE s

handleTriggerClick(s) == dropdownToggle(s)

\* handleTriggerKeyDown(e): Enter, Space and ArrowDown open the menu and
\* focus its first item a moment later, ArrowUp its last
handleTriggerKeyDown(s, key) ==
    IF s.isOpen THEN s
    ELSE [dropdownOpen(s) EXCEPT !.timers =
             Append(@, Timer(IF key = "ArrowUp" THEN "focusLast" ELSE "focusFirst",
                             FOCUS_ITEM_DELAY, s.onOpenCount + 1, FALSE))]

handleMenuKeyDown(s, key) ==
    IF key = "ArrowDown" THEN focusItem(s, s.focusedIndex + 1)
    ELSE IF key = "ArrowUp" THEN focusItem(s, s.focusedIndex - 1)
    ELSE IF key = "Home" THEN focusItem(s, 0)
    ELSE IF key = "End" THEN focusItem(s, Len(s.menuItems) - 1)
    ELSE IF key = "Enter"
         THEN IF s.focusedIndex >= 0 /\ s.focusedIndex < Len(s.menuItems)
              THEN selectItem(s) ELSE s
    ELSE dropdownClose(s)

\* handleItemClick(e) for a click on the item `item` of the menu
handleItemClick(s, item) ==
    IF item \in Range(s.menuItems) THEN selectItem(s) ELSE s

\* handleClickOutside without `!menu.contains(e.target)`
handleClickOutside_IgnoreMenu(s, target) ==
    IF s.options.closeOnClickOutside /\ target # "trigger"
    THEN dropdownClose(s) ELSE s

\* handleClickOutside(e): target is where e.target lies
handleClickOutside(s, target) ==
    IF s.options.closeOnClickOutside /\ target # "trigger" /\ target # "menu"
    THEN dropdownClose(s) ELSE s

(* ------------------------------------------------------------------ *)
(* Actions                                                              *)
(* ------------------------------------------------------------------ *)

Kinds == {"modal", "drawer"}

\* the timings an overlay is created with: one exit delay shorter and one
\* longer than FOCUS_TRAP_DELAY ('fast' and 'slow' order against the other
\* timers as 'normal' does)
Animations == {"instant", "normal"}

\* the page is at the top or scrolled
InitialScrollY == {0, MaxScrollY}

Init ==
    /\ options \in [kind : Kinds, backdrop : BOOLEAN, closeOnBackdrop : BOOLEAN,
                    closeOnEscape : BOOLEAN, trapFocus : BOOLEAN,
                    animation : Animations]
    /\ isOpen = FALSE
    /\ backdropElement = 0
    /\ unlockScroll = NoUnlock
    /\ cleanupListeners = <<>>
    /\ trapActive = FALSE
    /\ trapCleanup = <<>>
    /\ listeners = {}
    /\ bodyChildren = {}
    /\ ariaHidden = "true"
    /\ shown = FALSE
    /\ bodyStyle = OriginalStyle
    /\ scrollY \in InitialScrollY
    /\ timers = <<>>
    /\ onOpenCount = 0
    /\ onCloseCount = 0
    /\ destroyed = FALSE
    /\ op = "create"
    /\ arg = 0
    /\ wasOpen = FALSE
    /\ closeCalls = 0
    /\ NoFocusTrap
    /\ NoStyleManager
    /\ NoScrollLock
    /\ NoDropdown
    /\ NoComponents

\* a caller invokes open()
Open ==
    /\ isOpen \/ onOpenCount < MaxOpens
    /\ Commit(open(Enter("open", 0)))

\* a caller invokes close()
Close == Commit(close(Enter("close", 0)))

\* a caller invokes toggle()
Toggle ==
    /\ isOpen \/ onOpenCount < MaxOpens
    /\ Commit(toggle(Enter("toggle", 0)))

\* a caller invokes destroy()
Destroy == Commit(destroy(Enter("destroy", 0)))

\* the user presses Escape: the keydown event reaches the listeners on document
KeydownEscape ==
    LET s0 == Enter("escape", 0)
        s1 == IF TrapKeyDown \in listeners THEN trapHandleKeyDown(s0) ELSE s0
        s2 == IF EscapeKey \in listeners THEN handleEscapeKey(s1) ELSE s1
    IN Commit(s2)

\* the user clicks an attached backdrop node n (e.target is that node)
ClickBackdrop ==
    \E n \in bodyChildren :
        LET s0 == Enter("clickBackdrop", n)
        IN Commit(IF BackdropClick(n) \in listeners
                  THEN handleBackdropClick(s0, n) ELSE s0)

\* the user clicks a node inside an attached backdrop node n: the event
\* bubbles to n with e.target the inner node
ClickChild ==
    \E n \in bodyChildren :
        LET s0 == Enter("clickChild", ChildOf(n))
        IN Commit(IF BackdropClick(n) \in listeners
                  THEN handleBackdropClick(s0, ChildOf(n)) ELSE s0)

\* index of the timer the event loop runs next: the first one that is due
Due == {i \in 1..Len(timers) : timers[i].rem = 0}
NextDue == CHOOSE i \in Due : \A j \in Due : i <= j

Remove(q, i) == SubSeq(q, 1, i - 1) \o SubSeq(q, i + 1, Len(q))

\* the exit timer of a close() fires: the drawer's callback hides the
\* element, then the rest of close() runs
CloseTimerFires ==
    /\ Due # {}
    /\ timers[NextDue].kind = "close"
    /\ Commit(CloseContinuation([Enter("closeTimer", 0)
                                     EXCEPT !.timers = Remove(@, NextDue)]))

\* the drawer's delayed focusTrap?.activate() runs
ActivateTimerFires ==
    /\ Due # {}
    /\ timers[NextDue].kind = "activate"
    /\ Commit(FocusTrapActivate([Enter("activateTimer", 0)
                                     EXCEPT !.timers = Remove(@, NextDue)]))

\* time left until the next pending timer is due
NextDelay == CHOOSE d \in {timers[i].rem : i \in 1..Len(timers)} :
                 \A j \in 1..Len(timers) : d <= timers[j].rem

\* time passes, while no timer is due, until the next one is
Tick ==
    /\ timers # <<>>
    /\ Due = {}
    /\ Commit([Enter("tick", 0) EXCEPT !.timers =
                   [i \in 1..Len(timers) |->
                       [timers[i] EXCEPT !.rem = @ - NextDelay]]])

Next ==
    \/ Open
    \/ Close
    \/ Toggle
    \/ Destroy
    \/ KeydownEscape
    \/ ClickBackdrop
    \/ ClickChild
    \/ CloseTimerFires
    \/ ActivateTimerFires
    \/ Tick

Spec == Init /\ [][Next]_vars

(* ------------------------------------------------------------------ *)
(* Properties                                                           *)
(* ------------------------------------------------------------------ *)

\* number of close() calls whose exit timer has not fired yet
PendingCloses == Cardinality({i \in 1..Len(timers) : timers[i].kind = "close"})

\* the listeners open() registered that are attached
OpenListeners ==
    {l \in listeners : l.handler \in {"handleBackdropClick", "handleEscapeKey"}}

\* the open() cycles whose backdrop listener is attached
ListenerCycles == {l.node : l \in {k \in listeners : k.handler = "handleBackdropClick"}}

\* C1: open() on an open overlay and close() on a closed one (also while an
\* exit timer is pending) change nothing: no callback, no backdrop, no scroll
\* lock, no listener, no timer; so every onClose, delivered or still pending,
\* belongs to an open() of its own.
C1_OpenCloseIdempotent ==
    [][ /\ (op' = "open" /\ isOpen) => UNCHANGED progVars
        /\ (op' = "close" /\ ~isOpen) => UNCHANGED progVars
        /\ onCloseCount' + PendingCloses' <= onOpenCount' ]_vars

\* a second close() arrived while the exit timer of the first was pending
C1_Witness ==
    /\ op = "close"
    /\ ~wasOpen
    /\ PendingCloses = 1
    /\ onOpenCount = 1
    /\ onCloseCount = 0

\* C2: when open() returns on a closed overlay, isOpen is true, aria-hidden is
\* "false", the body is pinned at minus the scroll position, a new backdrop
\* node is attached to body exactly when the backdrop option is on, and onOpen
\* ran exactly once.
C2_OpenPostcondition ==
    [][ (op' = "open" /\ ~isOpen) =>
            /\ isOpen'
            /\ ariaHidden' = "false"
            /\ bodyStyle' = PinnedStyle(scrollY)
            /\ (backdropElement' \in bodyChildren' \ bodyChildren) <=> options.backdrop
            /\ ~options.backdrop => bodyChildren' = bodyChildren
            /\ onOpenCount' = onOpenCount + 1 ]_vars

\* open() has run a second time on a closed overlay with a backdrop
C2_Witness ==
    /\ op = "open"
    /\ ~wasOpen
    /\ options.backdrop
    /\ onOpenCount = 2
    /\ backdropElement \in bodyChildren

\* C3: when destroy() returns, isOpen is false and no backdrop node of the
\* overlay is attached to the document.
C3_DestroyClosesAndDetaches ==
    op = "destroy" => (~isOpen /\ bodyChildren = {})

\* C4: once destroy() has been called, open(), close() and toggle() change
\* neither isOpen nor the backdrop, the scroll lock or the callback counts.
C4_DestroyIsTerminal ==
    [][ (destroyed /\ op' \in {"open", "close", "toggle"}) =>
            UNCHANGED <<isOpen, backdropElement, bodyChildren, unlockScroll,
                        bodyStyle, onOpenCount, onCloseCount>> ]_vars

\* C5: when destroy() has returned, and as the pending timers fire after it,
\* no listener of the overlay or of its focus trap is attached, the trap is
\* inactive and the body is not pinned.
C5_DestroyReleasesEverything ==
    (destroyed /\ op \in {"destroy", "tick", "closeTimer", "activateTimer"}) =>
        (listeners = {} /\ ~trapActive /\ bodyStyle = OriginalStyle)

\* C6: backdropElement is non-null exactly when the overlay is open and the
\* backdrop option is on.
C6_BackdropIffOpen ==
    ~destroyed => ((backdropElement # 0) <=> (isOpen /\ options.backdrop))

\* C7: the attached listeners of open() belong to one open()-to-close() cycle,
\* and none is attached once the overlay is closed and no exit timer is pending.
C7_OneCycleOfListeners ==
    ~destroyed =>
        /\ Cardinality(ListenerCycles) <= 1
        /\ (~isOpen /\ PendingCloses = 0) => OpenListeners = {}

\* C8: when an exit timer fires on an overlay that has been opened again, the
\* overlay is still open in every respect: aria-hidden "false", element shown,
\* backdrop attached with its click listener, body pinned.
C8_StaleTimerKeepsReopen ==
    (op = "closeTimer" /\ isOpen /\ ~destroyed) =>
        /\ ariaHidden = "false"
        /\ shown
        /\ options.backdrop => backdropElement \in bodyChildren
        /\ (options.backdrop /\ options.closeOnBackdrop) =>
               BackdropClick(backdropElement) \in listeners
        /\ (options.closeOnEscape /\ ~options.trapFocus) => EscapeKey \in listeners
        /\ bodyStyle.position = "fixed"

\* C9: with trapFocus and closeOnEscape, open() registers no document-level
\* Escape listener, an Escape keydown on an open overlay calls close() exactly
\* once, and on an overlay whose close() has started it calls nothing.
C9_EscapeClosesOnce ==
    (options.trapFocus /\ options.closeOnEscape /\ ~destroyed) =>
        /\ EscapeKey \notin listeners
        /\ (op = "escape" /\ wasOpen) => closeCalls = 1
        /\ (op = "escape" /\ ~wasOpen) => closeCalls = 0

\* C10: on an open modal with closeOnBackdrop, a click on the backdrop node
\* calls close() once, and when the exit timer of that close() fires
\* aria-hidden is "true" and the clicked node is detached; a click on a node
\* inside the backdrop closes nothing.
C10_BackdropClickCloses ==
    [][ (options.kind = "modal" /\ options.backdrop /\ options.closeOnBackdrop
         /\ ~destroyed) =>
            /\ (op' = "clickBackdrop" /\ isOpen /\ arg' = backdropElement) =>
                   (closeCalls' = 1 /\ ~isOpen' /\ PendingCloses' = PendingCloses + 1)
            /\ (op' = "clickChild") => (closeCalls' = 0 /\ UNCHANGED progVars)
            /\ (op' = "closeTimer" /\ Due # {} /\ timers[NextDue].click) =>
                   (ariaHidden' = "true" /\ timers[NextDue].cyc \notin bodyChildren') ]_vars

(* ------------------------------------------------------------------ *)
(* createFocusTrap: specification                                       *)
(* ------------------------------------------------------------------ *)

\* the variables createFocusTrap's specification leaves alone
overlayVars == <<options, isOpen, backdropElement, unlockScroll, cleanupListeners,
                 bodyChildren, ariaHidden, shown, bodyStyle, scrollY, timers,
                 onOpenCount, onCloseCount, destroyed, arg, wasOpen, closeCalls>>

\* no modal or drawer has been created
OverlayAbsent ==
    /\ options = [kind |-> "modal", backdrop |-> FALSE, closeOnBackdrop |-> FALSE,
                  closeOnEscape |-> FALSE, trapFocus |-> FALSE,
                  animation |-> "instant"]
    /\ isOpen = FALSE
    /\ backdropElement = 0
    /\ unlockScroll = NoUnlock
    /\ cleanupListeners = <<>>
    /\ bodyChildren = {}
    /\ ariaHidden = "absent"
    /\ shown = TRUE
    /\ timers = <<>>
    /\ onOpenCount = 0
    /\ onCloseCount = 0
    /\ destroyed = FALSE
    /\ wasOpen = FALSE
    /\ closeCalls = 0

\* no overlay, and a page at the top whose body has no inline style
NoOverlay ==
    /\ OverlayAbsent
    /\ bodyStyle = OriginalStyle
    /\ scrollY = 0
    /\ arg = 0

\* the state after the entry point `name` of the trap, or the browser on its
\* behalf, has run and left the state t
TrapCommit(t, name) ==
    /\ trapActive' = t.trapActive
    /\ trapCleanup' = t.trapCleanup
    /\ listeners' = t.listeners
    /\ trapOptions' = t.options
    /\ previouslyFocused' = t.previouslyFocused
    /\ focusableElements' = t.focusableElements
    /\ activeElement' = t.activeElement
    /\ tabindex' = t.tabindex
    /\ focusable' = t.focusable
    /\ frames' = t.frames
    /\ prevented' = t.prevented
    /\ focusAtActivate' = IF ~trapActive /\ t.trapActive
                          THEN activeElement ELSE focusAtActivate
    /\ returns' = IF ~trapActive /\ t.trapActive THEN 0 ELSE t.returns
    /\ op' = name
    /\ UNCHANGED <<overlayVars, styleVars, lockVars, dropdownVars, componentVars>>

InitialFocusPolicy == {"first", "container"}
ReturnFocusPolicy == {"previous", "element"}

\* a document with a container; something on the page, or nothing, has focus
InitTrap ==
    /\ NoOverlay
    /\ trapActive = FALSE
    /\ trapCleanup = <<>>
    /\ listeners = {}
    /\ op = "create"
    /\ trapOptions \in [initialFocus : InitialFocusPolicy,
                         returnFocus : ReturnFocusPolicy]
    /\ previouslyFocused = NoElement
    /\ focusableElements = <<>>
    /\ focusable \in 0..MaxFocusable
    /\ tabindex \in {"absent", "-1"}
    /\ activeElement \in {Body, Before, After} \cup (1..focusable)
                          \cup (IF tabindex = "-1" THEN {Container} ELSE {})
    /\ frames = 0
    /\ prevented = FALSE
    /\ focusAtActivate = NoElement
    /\ returns = 0
    /\ NoStyleManager
    /\ NoScrollLock
    /\ NoDropdown
    /\ NoComponents

\* a caller invokes activate()
Activate ==
    /\ trapActive \/ frames < MaxFrames
    /\ TrapCommit(trapActivate(TrapCur), "activate")

\* a caller invokes deactivate()
Deactivate == TrapCommit(trapDeactivate(TrapCur), "deactivate")

\* a caller invokes updateElements()
UpdateElements == TrapCommit(updateElements(TrapCur), "updateElements")

\* the next animation frame: the oldest pending callback of activate() runs
Frame ==
    /\ frames > 0
    /\ TrapCommit(InitialFocusFrame([TrapCur EXCEPT !.frames = @ - 1]), "frame")

\* the browser's own move for a Tab (Shift+Tab) that no handler prevented:
\* the next (previous) element in the document's tab order, and out of the
\* document after the last (before the first)
TabDefault(t, shiftKey) ==
    LET x == t.activeElement
        n == t.focusable
    IN IF shiftKey
       THEN IF x = Body THEN After
            ELSE IF x = After THEN (IF n >= 1 THEN n ELSE Before)
            ELSE IF x = Before THEN Body
            ELSE IF x = Container THEN Before
            ELSE IF x > 1 THEN x - 1 ELSE Before
       ELSE IF x = Body THEN Before
            ELSE IF x = After THEN Body
            ELSE IF x \in {Before, Container} THEN (IF n >= 1 THEN 1 ELSE After)
            ELSE IF x < n THEN x + 1 ELSE After

\* a keydown of Tab reaches the listeners on document, then the browser acts
KeyDownTab(t, shiftKey) ==
    LET e == [t EXCEPT !.prevented = FALSE]
        t1 == IF TrapKeyDown \in e.listeners THEN handleKeyDown(e, shiftKey) ELSE e
    IN IF t1.prevented THEN t1
       ELSE moveFocus(t1, TabDefault(t1, shiftKey))

\* the user presses Tab
Tab == TrapCommit(KeyDownTab(TrapCur, FALSE), "tab")

\* the user presses Shift+Tab
ShiftTab == TrapCommit(KeyDownTab(TrapCur, TRUE), "shiftTab")

\* the page adds a focusable element at the end of the container
AddFocusable ==
    /\ focusable < MaxFocusable
    /\ TrapCommit([TrapCur EXCEPT !.focusable = @ + 1], "addFocusable")

\* the page removes the container's last focusable element; if it had the
\* focus, the focus falls back to the body
RemoveFocusable ==
    /\ focusable > 0
    /\ TrapCommit([TrapCur EXCEPT !.focusable = @ - 1,
                                  !.activeElement = IF @ = focusable THEN Body ELSE @],
                  "removeFocusable")

\* the user clicks a focusable element outside the container (or a script
\* focuses it), or a place that takes no focus, which leaves it to the body
FocusOutside ==
    \E target \in {Before, After, Body} :
        /\ target # activeElement
        /\ TrapCommit(moveFocus(TrapCur, target),
                      IF target = Body THEN "blur" ELSE "focusOutside")

NextTrap ==
    \/ FocusOutside
    \/ Activate
    \/ Deactivate
    \/ UpdateElements
    \/ Frame
    \/ Tab
    \/ ShiftTab
    \/ AddFocusable
    \/ RemoveFocusable

SpecTrap == InitTrap /\ [][NextTrap]_vars

\* C11: on an active trap whose container has N >= 1 focusable descendants,
\* Tab on the last one moves focus to the first, Tab on any other moves it to
\* the next (so N presses from the first lead back to it), and Shift+Tab on
\* the first or on the container moves it to the last.
C11_TabCycles ==
    [][ (trapActive /\ focusable >= 1) =>
            /\ (op' = "tab" /\ activeElement = focusable) =>
                   (activeElement' = 1 /\ prevented')
            /\ (op' = "tab" /\ activeElement \in 1..(focusable - 1)) =>
                   activeElement' = activeElement + 1
            /\ (op' = "shiftTab" /\ activeElement \in {1, Container}) =>
                   (activeElement' = focusable /\ prevented') ]_vars

\* Tab on the last of MaxFocusable elements has wrapped to the first
C11_Witness ==
    /\ op = "tab"
    /\ trapActive
    /\ prevented
    /\ focusable = MaxFocusable
    /\ activeElement = 1

\* C12: on an active trap whose container has no focusable descendant, every
\* Tab and Shift+Tab is prevented and the focus stays where it is.
C12_EmptyTrapSwallowsTab ==
    [][ (trapActive /\ focusable = 0 /\ op' \in {"tab", "shiftTab"}) =>
            (prevented' /\ activeElement' = activeElement) ]_vars

\* Shift+Tab was pressed on an active trap with an empty container
C12_Witness ==
    /\ op = "shiftTab"
    /\ trapActive
    /\ focusable = 0
    /\ prevented

\* C13: with returnFocus 'previous', deactivate() on an active trap puts the
\* focus on the element that had it when activate() was called, if that
\* element is still in the document.
C13_ReturnFocus ==
    [][ (op' = "deactivate" /\ trapActive /\ trapOptions.returnFocus = "previous"
         /\ focusAtActivate # Body
         /\ (focusAtActivate >= 1 => focusAtActivate <= focusable)) =>
            activeElement' = focusAtActivate ]_vars

\* C14: after a Tab or Shift+Tab on an active trap the focused element is
\* inside the container.
C14_TabStaysInside ==
    (op \in {"tab", "shiftTab"} /\ trapActive) => Inside(activeElement)

\* C15: activate() on an active trap and deactivate() on an inactive one
\* change nothing; an active trap has exactly its keydown listener on document
\* and its focusout listener on the container attached, an inactive one none;
\* focus is returned at most once per activation.
C15_ActivateDeactivateIdempotent ==
    [][ /\ (op' = "activate" /\ trapActive) =>
               UNCHANGED <<trapActive, trapCleanup, listeners, focusVars>>
        /\ (op' = "deactivate" /\ ~trapActive) =>
               UNCHANGED <<trapActive, trapCleanup, listeners, focusVars>>
        /\ trapActive' => (listeners' = {TrapKeyDown, TrapFocusOut}
                           /\ Len(trapCleanup') = 2)
        /\ ~trapActive' => (listeners' = {} /\ trapCleanup' = <<>>)
        /\ returns' <= 1 ]_vars

\* activate() was called again on an active trap after the focus had moved
C15_Witness ==
    /\ op = "activate"
    /\ trapActive
    /\ previouslyFocused = focusAtActivate
    /\ activeElement # previouslyFocused
    /\ Cardinality(listeners) = 2

(* ------------------------------------------------------------------ *)
(* StyleManager: specification                                          *)
(* ------------------------------------------------------------------ *)

\* the variables of the focus trap
trapVars == <<trapActive, trapCleanup, listeners, focusVars>>

Min(a, b) == IF a <= b THEN a ELSE b

\* the session after setStyle calls on the properties props, made when the
\* element's style was before: a call after a restore starts a new session
Touch(sess, props, before) ==
    LET s0 == IF sess.restores > 0 THEN NoSession ELSE sess
    IN [s0 EXCEPT
          !.baseline = [p \in Properties |->
                           IF p \in props /\ s0.baseline[p] = Untouched
                           THEN before[p] ELSE s0.baseline[p]],
          !.count = [p \in Properties |->
                        IF p \in props THEN Min(2, s0.count[p] + 1)
                        ELSE s0.count[p]]]

\* the session after a restore
Restored(sess) == [sess EXCEPT !.restores = Min(2, @ + 1)]

\* the state after the entry point `name` has run and left the state m
StyleCommit(m, name, sess) ==
    /\ elementStyle' = m.elementStyle
    /\ originalStyles' = m.originalStyles
    /\ glowState' = m.glow
    /\ writes' = m.writes
    /\ session' = sess
    /\ op' = name
    /\ UNCHANGED <<overlayVars, trapVars, lockVars, dropdownVars, componentVars>>

\* an element with any inline style; its manager is a caller's ("none") or
\* the one a glow() call will create ("idle")
InitStyle ==
    /\ NoOverlay
    /\ trapActive = FALSE
    /\ trapCleanup = <<>>
    /\ listeners = {}
    /\ NoFocusTrap
    /\ op = "create"
    /\ elementStyle \in [Properties -> UNION {StyleValues[p] : p \in Properties}]
    /\ \A p \in Properties : elementStyle[p] \in StyleValues[p]
    /\ originalStyles = NoEntry
    /\ glowState \in {NoGlow, [NoGlow EXCEPT !.phase = "none"]}
    /\ session = NoSession
    /\ writes = 0
    /\ NoScrollLock
    /\ NoDropdown
    /\ NoComponents

\* a caller invokes setStyle(element, property, value)
SetStyle ==
    /\ glowState.phase = "none"
    /\ \E property \in Properties : \E value \in StyleValues[property] :
           StyleCommit(setStyle(StyleCur, property, value), "setStyle",
                       Touch(session, {property}, elementStyle))

\* a caller invokes setStyles(element, {opacity, 'box-shadow'})
SetStyles ==
    /\ glowState.phase = "none"
    /\ \E v1 \in StyleValues["opacity"] : \E v2 \in StyleValues["box-shadow"] :
           StyleCommit(setStyles(StyleCur, << <<"opacity", v1>>, <<"box-shadow", v2>> >>),
                       "setStyles", Touch(session, Properties, elementStyle))

\* a caller invokes restore(element)
Restore ==
    /\ glowState.phase = "none"
    /\ StyleCommit(restore(StyleCur), "restore", Restored(session))

\* a caller invokes restoreAll()
RestoreAll ==
    /\ glowState.phase = "none"
    /\ StyleCommit(restoreAll(StyleCur), "restoreAll", Restored(session))

\* a caller invokes clear(element) or clear()
Clear ==
    /\ glowState.phase = "none"
    /\ StyleCommit(clear(StyleCur), "clear", NoSession)

\* other code of the page writes the element's inline style
ExternalWrite ==
    \E property \in Properties : \E value \in StyleValues[property] :
        StyleCommit([StyleCur EXCEPT
                        !.elementStyle[property] = value,
                        !.glow.disturbed = @ \/ (property = "box-shadow"
                                                  /\ glowState.phase \in {"on", "off"})],
                    "externalWrite", session)

\* a caller invokes glow(element, options): a new manager for the element
Glow ==
    /\ glowState.phase \in {"idle", "off"}
    /\ \E animated \in BOOLEAN, interactive \in BOOLEAN, reduceMotion \in BOOLEAN :
           StyleCommit(glow(StyleCur, animated, interactive, reduceMotion), "glow",
                       IF animated /\ ~reduceMotion THEN NoSession
                       ELSE Touch(NoSession, {"box-shadow"}, elementStyle))

\* the animation frame the pulse loop requested
AnimationFrame ==
    /\ glowState.frame
    /\ StyleCommit(animate(StyleCur), "animationFrame",
                   Touch(session, {"box-shadow"}, elementStyle))

\* the pointer enters the glowing element
MouseEnter ==
    /\ glowState.listening
    /\ StyleCommit(handleMouseEnter(StyleCur), "mouseenter",
                   Touch(session, {"box-shadow"}, elementStyle))

\* the pointer leaves the glowing element
MouseLeave ==
    /\ glowState.listening
    /\ StyleCommit(handleMouseLeave(StyleCur), "mouseleave",
                   Touch(session, {"box-shadow"}, elementStyle))

\* a caller invokes the cleanup function glow() returned
Cleanup ==
    /\ glowState.phase \in {"on", "off"}
    /\ StyleCommit(cleanup(StyleCur), "cleanup", Restored(session))

NextStyle ==
    \/ SetStyle
    \/ SetStyles
    \/ Restore
    \/ RestoreAll
    \/ Clear
    \/ ExternalWrite
    \/ Glow
    \/ AnimationFrame
    \/ MouseEnter
    \/ MouseLeave
    \/ Cleanup

SpecStyle == InitStyle /\ [][NextStyle]_vars

\* C16: the restore (restoreAll) that follows setStyle/setStyles calls leaves
\* every property they touched at the value it had before the first of them,
\* unset if it was unset; and glow()'s cleanup leaves box-shadow at its value
\* from before glow() was called, when nobody else wrote it since.
C16_RestoreToOriginal ==
    /\ (op \in {"restore", "restoreAll"} /\ session.restores = 1) =>
           \A p \in Properties :
               session.baseline[p] # Untouched => elementStyle[p] = session.baseline[p]
    /\ (op = "cleanup" /\ ~glowState.disturbed) =>
           elementStyle["box-shadow"] = glowState.before

\* opacity was unset, was overridden twice, and restore has removed it
C16_Witness ==
    /\ op = "restore"
    /\ session.restores = 1
    /\ session.count["opacity"] = 2
    /\ session.baseline["opacity"] = ""
    /\ elementStyle["opacity"] = ""
    /\ writes > 0

\* C17: restore empties the record, so a restore with nothing recorded writes
\* nothing to the element and changes nothing; the first setStyle on a
\* property after that records the value the property has then.
C17_RestoreIdempotent ==
    [][ /\ (op' = "restore" /\ ~originalStyles.has) =>
               (writes' = 0 /\ UNCHANGED <<elementStyle, originalStyles>>)
        /\ (op' = "restore") => originalStyles' = NoEntry
        /\ \A p \in Properties :
               (op' \in {"setStyle", "setStyles"} /\ ~originalStyles.has
                /\ session'.count[p] = 1) =>
                   (MapHas(originalStyles'.entries, p)
                    /\ MapGet(originalStyles'.entries, p) = elementStyle[p]) ]_vars

\* restore was called a second time with no setStyle in between
C17_Witness ==
    /\ op = "restore"
    /\ session.restores = 2
    /\ session.count["opacity"] >= 1
    /\ writes = 0

(* ------------------------------------------------------------------ *)
(* lockScroll: specification                                            *)
(* ------------------------------------------------------------------ *)

\* the overlay's variables that lockScroll's specification leaves alone
overlayRest == <<options, isOpen, backdropElement, unlockScroll, cleanupListeners,
                 bodyChildren, ariaHidden, shown, onOpenCount,
                 onCloseCount, destroyed, wasOpen, closeCalls>>

\* inline styles the page itself gives the body
PageStyles == {OriginalStyle, [position |-> "relative", top |-> 0]}

\* the body and the window as lockScroll sees them, with caller c's closure
LockCur(c) == [unlockScroll |-> tokens[c], bodyStyle |-> bodyStyle, scrollY |-> scrollY]

\* the state after caller c (0: the user) has run `name` and left the state s
LockStep(s, name, c) ==
    /\ bodyStyle' = s.bodyStyle
    /\ scrollY' = s.scrollY
    /\ op' = name
    /\ arg' = c
    /\ UNCHANGED <<overlayRest, trapVars, styleVars, dropdownVars, componentVars>>

\* the same for a step that sets no timer and runs none
LockCommit(s, name, c) == LockStep(s, name, c) /\ UNCHANGED timers

\* caller c is a modal whose close() waits for its exit timer
Closing(c) == \E i \in 1..Len(timers) : timers[i].cyc = c

\* the callers that are open modals
OpenCallers == {c \in Callers : tokens[c].set /\ ~Closing(c)}

WithoutCaller(q, c) == SelectSeq(q, LAMBDA e : e.caller # c)

InitLock ==
    /\ OverlayAbsent
    /\ bodyStyle \in PageStyles
    /\ scrollY \in 0..MaxScrollY
    /\ arg = 0
    /\ trapActive = FALSE
    /\ trapCleanup = <<>>
    /\ listeners = {}
    /\ NoFocusTrap
    /\ NoStyleManager
    /\ NoScrollLock
    /\ NoDropdown
    /\ NoComponents
    /\ op = "create"

\* caller c, holding no closure, invokes lockScroll() and keeps the result
LockBy(c) ==
    /\ ~tokens[c].set
    /\ LET s == lockScroll(LockCur(c))
       IN /\ LockCommit(s, "lock", c)
          /\ tokens' = [tokens EXCEPT ![c] = s.unlockScroll]
          /\ seen' = [d \in Callers |->
                         IF d = c
                         THEN [style |-> bodyStyle, y |-> scrollY,
                               alone |-> \A e \in Callers : ~tokens[e].set,
                               with |-> OpenCallers]
                         ELSE IF \A e \in Callers : ~tokens[e].set
                              THEN NotSeen
                              ELSE [seen[d] EXCEPT !.alone = FALSE]]
          /\ closeOrder' = IF \A e \in Callers : ~tokens[e].set THEN <<>>
                           ELSE WithoutCaller(closeOrder, c)

Lock == \E c \in Callers : LockBy(c)

\* the two modals of the page, in the order of their creation
Modals == {c \in Callers : c <= 2}

\* open() of a modal: unlockScroll = lockScroll()
ModalOpen == \E c \in Modals : LockBy(c)

\* caller c invokes the closure it holds and drops it
Unlock ==
    \E c \in Callers :
        /\ tokens[c].set
        /\ ~Closing(c)
        /\ LockCommit(RunUnlock(LockCur(c), tokens[c]), "unlock", c)
        /\ tokens' = [tokens EXCEPT ![c] = NoUnlock]
        /\ UNCHANGED <<seen, closeOrder>>

\* caller c is a modal with the exit animation a, and its close() is called:
\* the closure is kept until the exit timer fires
ModalClose ==
    \E c \in OpenCallers, a \in Animations :
        /\ LockStep(LockCur(c), "close", c)
        /\ timers' = Append(timers, Timer("close", ANIMATION_DURATION[a], c, FALSE))
        /\ closeOrder' = Append(closeOrder,
                                [caller |-> c, duration |-> ANIMATION_DURATION[a]])
        /\ UNCHANGED <<tokens, seen>>

\* the exit timer of a modal's close() fires: unlockScroll?.(); unlockScroll = null
ModalCloseTimerFires ==
    /\ Due # {}
    /\ LET c == timers[NextDue].cyc
       IN /\ LockStep(RunUnlock(LockCur(c), tokens[c]), "closeTimer", c)
          /\ tokens' = [tokens EXCEPT ![c] = NoUnlock]
    /\ timers' = Remove(timers, NextDue)
    /\ UNCHANGED <<seen, closeOrder>>

\* time passes, while no timer is due, until the next one is
LockTick ==
    /\ timers # <<>>
    /\ Due = {}
    /\ LockStep(LockCur(1), "tick", 0)
    /\ timers' = [i \in 1..Len(timers) |-> [timers[i] EXCEPT !.rem = @ - NextDelay]]
    /\ UNCHANGED lockVars

\* the user scrolls the page, which a pinned body does not allow
Scroll ==
    /\ bodyStyle.position # "fixed"
    /\ \E y \in 0..MaxScrollY :
           /\ y # scrollY
           /\ LockCommit([LockCur(1) EXCEPT !.scrollY = y], "scroll", 0)
    /\ UNCHANGED lockVars

NextLock ==
    \/ Lock
    \/ Unlock
    \/ Scroll

SpecLock == InitLock /\ [][NextLock]_vars

\* two modals, each opened and closed any number of times
NextModals ==
    \/ ModalOpen
    \/ ModalClose
    \/ ModalCloseTimerFires
    \/ LockTick
    \/ Scroll

SpecModals == InitLock /\ [][NextModals]_vars

\* C18: for a lockScroll() called while no other lock is outstanding and with
\* none taken before its unlock(): until the unlock the body is pinned with
\* position fixed and top minus the scrollY at the call, and the unlock
\* restores the body style and the scrollY of the call.
C18_LockUnlockRoundTrip ==
    [][ \A c \in Callers :
            /\ (op' = "unlock" /\ arg' = c /\ seen[c].alone) =>
                   (bodyStyle' = seen[c].style /\ scrollY' = seen[c].y)
            /\ (tokens'[c].set /\ seen'[c].alone) =>
                   bodyStyle' = PinnedStyle(seen'[c].y) ]_vars

\* a scrolled page with an inline body style was locked and unlocked
C18_Witness ==
    /\ op = "unlock"
    /\ arg = 1
    /\ seen[1].alone
    /\ seen[1].y = MaxScrollY
    /\ seen[1].style # OriginalStyle
    /\ bodyStyle = seen[1].style
    /\ scrollY = MaxScrollY

(* ------------------------------------------------------------------ *)
(* createDropdown: specification                                        *)
(* ------------------------------------------------------------------ *)

\* the state on entry to the dropdown's entry point `name`
DropEnter(name) == [DropCur EXCEPT !.op = name]

\* the run of ArrowDown presses after a step that left the state s
NextRun(s) ==
    IF ~isOpen /\ s.isOpen THEN 0
    ELSE IF s.op = "ArrowDown" /\ run >= 0 /\ run <= MaxItems THEN run + 1
    ELSE 0 - 1

DropCommit(s) ==
    /\ Len(s.timers) <= MaxPending
    /\ CommitOverlay(s)
    /\ focusedIndex' = s.focusedIndex
    /\ menuItems' = s.menuItems
    /\ enabledItems' = s.enabledItems
    /\ ariaExpanded' = s.ariaExpanded
    /\ run' = NextRun(s)
    /\ UNCHANGED <<focusVars, styleVars, lockVars, componentVars>>

\* the timings a dropdown is created with: no exit delay, and the default
DropdownAnimations == {"instant", "fast"}

MenuKeys == {"ArrowDown", "ArrowUp", "Home", "End", "Enter", "Escape", "Tab"}
TriggerKeys == {"Enter", "ArrowDown", "ArrowUp"}

InitDropdown ==
    /\ options \in [kind : {"dropdown"}, closeOnClickOutside : BOOLEAN,
                    closeOnSelect : BOOLEAN, animation : DropdownAnimations]
    /\ isOpen = FALSE
    /\ backdropElement = 0
    /\ unlockScroll = NoUnlock
    /\ cleanupListeners = <<>>
    /\ trapActive = FALSE
    /\ trapCleanup = <<>>
    /\ listeners = {TriggerClick, TriggerKeyDown}
    /\ bodyChildren = {}
    /\ ariaHidden = "absent"
    /\ shown = FALSE
    /\ bodyStyle = OriginalStyle
    /\ scrollY = 0
    /\ timers = <<>>
    /\ onOpenCount = 0
    /\ onCloseCount = 0
    /\ destroyed = FALSE
    /\ op = "create"
    /\ arg = 0
    /\ wasOpen = FALSE
    /\ closeCalls = 0
    /\ NoFocusTrap
    /\ NoStyleManager
    /\ NoScrollLock
    /\ NoComponents
    /\ focusedIndex = 0 - 1
    /\ menuItems = <<>>
    /\ enabledItems \in 0..MaxItems
    /\ ariaExpanded = "false"
    /\ run = 0 - 1

\* a caller invokes open()
DropdownOpen ==
    /\ isOpen \/ onOpenCount < MaxOpens
    /\ DropCommit(dropdownOpen(DropEnter("open")))

\* a caller invokes close()
DropdownClose == DropCommit(dropdownClose(DropEnter("close")))

\* a caller invokes toggle()
DropdownToggle ==
    /\ isOpen \/ onOpenCount < MaxOpens
    /\ DropCommit(dropdownToggle(DropEnter("toggle")))

\* a caller invokes focusItem(index)
FocusItem ==
    \E index \in (0 - 1)..MaxItems :
        DropCommit(focusItem(DropEnter("focusItem"), index))

\* a caller invokes destroy()
DropdownDestroy == DropCommit(dropdownDestroy(DropEnter("destroy")))

\* the user clicks the trigger: its listener runs, then the click reaches
\* the listeners on document, also one that the first listener added
ClickTrigger ==
    /\ isOpen \/ onOpenCount < MaxOpens
    /\ {TriggerClick, DocClick} \cap listeners # {}
    /\ LET s0 == DropEnter("clickTrigger")
           s1 == IF TriggerClick \in s0.listeners THEN handleTriggerClick(s0) ELSE s0
           s2 == IF DocClick \in s1.listeners THEN handleClickOutside(s1, "trigger") ELSE s1
       IN DropCommit(s2)

\* the user clicks an item of the visible menu
ClickItem ==
    /\ shown
    /\ {MenuClick, DocClick} \cap listeners # {}
    /\ \E item \in 1..enabledItems :
           LET s0 == DropEnter("clickItem")
               s1 == IF MenuClick \in s0.listeners THEN handleItemClick(s0, item) ELSE s0
               s2 == IF DocClick \in s1.listeners THEN handleClickOutside(s1, "menu") ELSE s1
           IN DropCommit(s2)

\* the user clicks the visible menu beside its items: e.target is the menu
ClickMenu ==
    /\ shown
    /\ {MenuClick, DocClick} \cap listeners # {}
    /\ LET s0 == DropEnter("clickMenu")
           s1 == IF MenuClick \in s0.listeners THEN handleItemClick(s0, 0) ELSE s0
           s2 == IF DocClick \in s1.listeners THEN handleClickOutside(s1, "menu") ELSE s1
       IN DropCommit(s2)

\* the user clicks the page outside the trigger and the menu, and document
\* listens to it
ClickOutside ==
    /\ DocClick \in listeners
    /\ DropCommit(handleClickOutside(DropEnter("clickOutside"), "outside"))

\* the user presses a key with the focus in the menu, which listens to it
KeydownMenu ==
    /\ MenuKeyDown \in listeners
    /\ \E key \in MenuKeys :
           DropCommit(handleMenuKeyDown(DropEnter(key), key))

\* the user presses a key with the focus on the trigger, which listens to it
KeydownTrigger ==
    /\ isOpen \/ onOpenCount < MaxOpens
    /\ TriggerKeyDown \in listeners
    /\ \E key \in TriggerKeys :
           DropCommit(handleTriggerKeyDown(DropEnter("keydownTrigger"), key))

\* the exit timer of a close() fires
DropdownCloseTimerFires ==
    /\ Due # {}
    /\ timers[NextDue].kind = "close"
    /\ DropCommit(DropdownCloseContinuation([DropEnter("closeTimer")
                                                 EXCEPT !.timers = Remove(@, NextDue)]))

\* the delayed focusItem of handleTriggerKeyDown runs
FocusTimerFires ==
    /\ Due # {}
    /\ timers[NextDue].kind \in {"focusFirst", "focusLast"}
    /\ LET s0 == [DropEnter("focusTimer") EXCEPT !.timers = Remove(@, NextDue)]
       IN DropCommit(focusItem(s0, IF timers[NextDue].kind = "focusFirst"
                                   THEN 0 ELSE Len(s0.menuItems) - 1))

NextDropdown ==
    \/ DropdownOpen
    \/ DropdownClose
    \/ DropdownToggle
    \/ FocusItem
    \/ DropdownDestroy
    \/ ClickTrigger
    \/ ClickItem
    \/ ClickMenu
    \/ ClickOutside
    \/ KeydownMenu
    \/ KeydownTrigger
    \/ DropdownCloseTimerFires
    \/ FocusTimerFires
    \/ Tick

SpecDropdown == InitDropdown /\ [][NextDropdown]_vars

\* C19: on an open dropdown with N >= 1 enabled items, ArrowDown moves
\* focusedIndex from i to (i+1) mod N (from -1 to 0), ArrowUp to (i-1) mod N
\* (from -1 or 0 to N-1), Home to 0 and End to N-1; k ArrowDown presses after
\* open() leave it at (k-1) mod N; focusedIndex is always -1 or an index of
\* the item list.
C19_RovingIndex ==
    [][ /\ (isOpen /\ ~destroyed /\ enabledItems >= 1) =>
               /\ (op' = "ArrowDown") =>
                      focusedIndex' = (focusedIndex + 1) % enabledItems
               /\ (op' = "ArrowUp") =>
                      focusedIndex' = IF focusedIndex <= 0 THEN enabledItems - 1
                                      ELSE focusedIndex - 1
               /\ (op' = "Home") => focusedIndex' = 0
               /\ (op' = "End") => focusedIndex' = enabledItems - 1
        /\ (run' >= 1 /\ enabledItems' >= 1) =>
               focusedIndex' = (run' - 1) % enabledItems'
        /\ focusedIndex' \in (0 - 1)..(Len(menuItems') - 1) ]_vars

\* one ArrowDown more than there are items has wrapped around to the first
C19_Witness ==
    /\ op = "ArrowDown"
    /\ isOpen
    /\ enabledItems = MaxItems
    /\ run = MaxItems + 1
    /\ focusedIndex = 0

\* C20: on an open dropdown with closeOnClickOutside a click outside the
\* trigger and the menu closes it and sets aria-expanded to "false"; a click
\* on the menu beside its items calls no close(), a click on the trigger
\* only the one of toggle(); Escape and Tab in the menu close it; a closed
\* dropdown has no document click, menu keydown or menu click listener left
\* that a later click or key could reach.
C20_OutsideClickCloses ==
    [][ ~destroyed =>
            /\ (op' = "clickOutside" /\ isOpen /\ options.closeOnClickOutside) =>
                   (~isOpen' /\ ariaExpanded' = "false" /\ closeCalls' = 1)
            /\ (op' = "clickMenu") => (closeCalls' = 0 /\ isOpen' = isOpen)
            /\ (op' = "clickTrigger") =>
                   (isOpen' = ~isOpen /\ closeCalls' = IF isOpen THEN 1 ELSE 0)
            /\ (op' \in {"Escape", "Tab"} /\ isOpen) =>
                   (~isOpen' /\ ariaExpanded' = "false")
            /\ ~isOpen' => listeners' \cap {DocClick, MenuKeyDown, MenuClick} = {} ]_vars

\* a click outside has closed the dropdown: its exit timer is pending and
\* its listeners are gone
C20_Witness ==
    /\ op = "clickOutside"
    /\ wasOpen
    /\ ~isOpen
    /\ closeCalls = 1
    /\ ariaExpanded = "false"
    /\ PendingCloses >= 1
    /\ listeners = {TriggerClick, TriggerKeyDown}

(* ------------------------------------------------------------------ *)
(* createFocusTrap: the container's tabindex and the focusout handler   *)
(* ------------------------------------------------------------------ *)

\* C26: a trap that is not created with initialFocus 'container' adds no
\* tabindex to the container, so no step of it changes the tabindex the
\* container carries.
C26_TabindexKept ==
    [][ (trapOptions.initialFocus # "container") => tabindex' = tabindex ]_vars

\* C27: when on an active trap the focus leaves the container for a node
\* outside it, it is back inside the container after the step, on the first
\* focusable element if the container has one.
C27_FocusOutReturns ==
    [][ (op' = "focusOutside" /\ trapActive /\ Inside(activeElement)) =>
            /\ Inside(activeElement')
            /\ focusable >= 1 => activeElement' = 1 ]_vars

(* ------------------------------------------------------------------ *)
(* Order of the steps of close()                                        *)
(* ------------------------------------------------------------------ *)

\* C24: a close() that passes its guard deactivates the focus trap in the
\* call itself and leaves aria-hidden, the backdrop, the listeners of open(),
\* the scroll lock and onClose to the exit timer; the step of the exit timer
\* does all of these, and onClose is invoked by no other step.
C24_CloseOrder ==
    [][ /\ (closeCalls' >= 1 /\ isOpen /\ op' \notin {"closeTimer", "activateTimer"}) =>
               /\ ~trapActive'
               /\ PendingCloses' = PendingCloses + 1
               /\ \A l \in Range(cleanupListeners) : l \in listeners => l \in listeners'
               /\ UNCHANGED <<ariaHidden, shown, backdropElement, bodyChildren,
                              cleanupListeners, unlockScroll, bodyStyle, scrollY,
                              onCloseCount>>
        /\ (op' = "closeTimer") =>
               /\ PendingCloses' = PendingCloses - 1
               /\ ariaHidden' = "true"
               /\ backdropElement' = 0
               /\ backdropElement \notin bodyChildren'
               /\ cleanupListeners' = <<>>
               /\ Range(cleanupListeners) \cap listeners' = {}
               /\ unlockScroll' = NoUnlock
               /\ onCloseCount' = onCloseCount + 1
        /\ (onCloseCount' # onCloseCount) => op' = "closeTimer"
        /\ (cleanupListeners # <<>> /\ cleanupListeners' = <<>>) => op' = "closeTimer"
        /\ (unlockScroll # NoUnlock /\ unlockScroll' = NoUnlock) => op' = "closeTimer" ]_vars

\* the exit timer of a close() has fired on a closed overlay that had a
\* backdrop, a focus trap and a scroll lock
C24_Witness ==
    /\ op = "closeTimer"
    /\ ~isOpen
    /\ ~destroyed
    /\ options.backdrop
    /\ options.trapFocus
    /\ onCloseCount = 1
    /\ ariaHidden = "true"
    /\ bodyChildren = {}
    /\ bodyStyle = OriginalStyle

(* ------------------------------------------------------------------ *)
(* Modal, drawer and dropdown side by side                              *)
(* ------------------------------------------------------------------ *)

\* a modal or drawer on a page that is not scrolled, or a dropdown
InitOverlays == (Init /\ scrollY = 0) \/ InitDropdown

\* the steps of the overlay's own specification, with one open() fewer
NextOverlays ==
    \/ options.kind \in Kinds /\ Next /\ onOpenCount' < MaxOpens
    \/ options.kind = "dropdown" /\ NextDropdown /\ onOpenCount' < MaxOpens

\* one overlay of any of the three kinds
SpecOverlays == InitOverlays /\ [][NextOverlays]_vars

\* the steps that are callbacks of the browser's timer queue
TimerSteps == {"closeTimer", "activateTimer", "focusTimer", "tick"}

\* C25: isOpen becomes true in the open() call and false in the close() call
\* itself, which leaves its exit timer pending; a timer callback never
\* changes isOpen.
C25_IsOpenFlipsAtStart ==
    [][ /\ (op' \in TimerSteps) => isOpen' = isOpen
        /\ (op' = "open" /\ ~isOpen) => isOpen'
        /\ (closeCalls' >= 1 /\ isOpen) =>
               (~isOpen' /\ PendingCloses' = PendingCloses + 1)
        /\ (op' = "toggle") =>
               (isOpen' = ~isOpen /\ PendingCloses' = PendingCloses + (IF isOpen THEN 1 ELSE 0)) ]_vars

\* the exit timer of a close() has fired on a dropdown: isOpen was false
\* before and still is
C25_Witness ==
    /\ op = "closeTimer"
    /\ options.kind = "dropdown"
    /\ ~wasOpen
    /\ ~isOpen
    /\ onCloseCount = 1

(* ------------------------------------------------------------------ *)
(* lockScroll held by two callers at once                               *)
(* ------------------------------------------------------------------ *)

\* the steps in which a caller's closure runs
UnlockSteps == {"unlock", "closeTimer"}

\* C28 as stated: when caller c locked an unpinned body, caller d locked
\* the body c had pinned, and both closures are outstanding, the closure of
\* c restores the style d's call captured.
C28_SecondOverwritesFirst ==
    [][ \A c, d \in Callers :
            (/\ op' \in UnlockSteps /\ arg' = c /\ d # c
             /\ tokens[c].set /\ tokens[d].set
             /\ seen[c].style.position # "fixed"
             /\ seen[d].style.position = "fixed") =>
                bodyStyle' = seen[d].style ]_vars

\* C28, amended: a lockScroll() call leaves the closures of the other
\* callers as they are and captures the body style it finds, pinned or not;
\* every closure restores the style and the scrollY of its own call.
C28_OwnBaseline ==
    [][ \A c \in Callers :
            /\ (op' \in UnlockSteps /\ arg' = c /\ tokens[c].set) =>
                   (bodyStyle' = seen[c].style /\ scrollY' = seen[c].y)
            /\ (op' = "lock" /\ arg' = c) =>
                   /\ tokens'[c].originalStyle = bodyStyle
                   /\ \A d \in Callers \ {c} : tokens'[d] = tokens[d] ]_vars

\* the first caller's closure has put the page's own style back while the
\* second caller, whose call captured the pinned style, still holds its own
C28_Witness ==
    /\ op \in UnlockSteps
    /\ \E c, d \in Callers :
           /\ arg = c /\ d # c
           /\ tokens[d].set
           /\ seen[d].style.position = "fixed"
           /\ seen[c].style.position # "fixed"
           /\ seen[c].style # OriginalStyle
           /\ bodyStyle = seen[c].style

\* modal a was opened on an unpinned page, modal b while a was the one open
\* modal; the two were closed, in the order first, second, and the step
\* taken is the exit timer after which no overlay holds a lock
LastExit(a, b, first, second) ==
    /\ a # b
    /\ op' = "closeTimer"
    /\ timers' = <<>>
    /\ \A c \in Callers : ~tokens'[c].set
    /\ seen[a].with = {}
    /\ seen[a].style.position # "fixed"
    /\ seen[b].with = {a}
    /\ Len(closeOrder) = 2
    /\ closeOrder[1].caller = first
    /\ closeOrder[2].caller = second

Ids == 1..MaxIds

\* the arrays of ids a caller passes: none, one or two ids
IdLists == {<<>>} \cup {<<a>> : a \in Ids} \cup {<<a, b>> : a, b \in Ids}

\* the callbacks handed to subscribe(); callback 0 is options.onChange
Callbacks == 1..MaxSubscribers

\* Array.prototype.includes
includes(list, id) == \E i \in 1..Len(list) : list[i] = id

\* Set.prototype.add on a set kept in insertion order
SetAdd(list, x) == IF includes(list, x) THEN list ELSE Append(list, x)

\* Set.prototype.delete
SetDelete(list, x) == SelectSeq(list, LAMBDA y : y # x)

\* one invocation of a callback with the value handed to it
Call(callback, value) == [callback |-> callback, value |-> value]

\* createAccordion without the check of defaultOpen
createAccordion_Unchecked(panelIds, o) ==
    [status |-> IF Len(panelIds) = 0 THEN "thrown" ELSE "live",
     panelIds |-> panelIds, defaultOpen |-> o.defaultOpen,
     collapsible |-> o.collapsible, multiple |-> o.multiple,
     onChange |-> o.onChange,
     openPanels |-> IF Len(panelIds) = 0 THEN {} ELSE Range(o.defaultOpen),
     subscribers |-> <<>>, calls |-> <<>>]

\* createAccordion(panelIds, options): throws, or returns the accordion
createAccordion(panelIds, o) ==
    LET invalidPanels == SelectSeq(o.defaultOpen, LAMBDA id : ~includes(panelIds, id))
        thrown == Len(panelIds) = 0 \/ Len(invalidPanels) > 0
    IN [status |-> IF thrown THEN "thrown" ELSE "live",
        panelIds |-> panelIds, defaultOpen |-> o.defaultOpen,
        collapsible |-> o.collapsible, multiple |-> o.multiple,
        onChange |-> o.onChange,
        openPanels |-> IF thrown THEN {} ELSE Range(o.defaultOpen),
        subscribers |-> <<>>, calls |-> <<>>]

\* the accordion's notifySubscribers: onChange, then every subscriber
accordionNotify(a) ==
    [a EXCEPT !.calls =
        @ \o (IF a.onChange THEN <<Call(0, a.openPanels)>> ELSE <<>>)
          \o [i \in 1..Len(a.subscribers) |-> Call(a.subscribers[i], a.openPanels)]]

\* toggle(panelId)
accordionToggle(a, panelId) ==
    IF ~includes(a.panelIds, panelId) THEN a
    ELSE IF panelId \in a.openPanels
    THEN IF a.collapsible \/ Cardinality(a.openPanels) > 1
         THEN accordionNotify([a EXCEPT !.openPanels = @ \ {panelId}])
         ELSE a
    ELSE accordionNotify([a EXCEPT !.openPanels =
                              (IF a.multiple THEN @ ELSE {}) \cup {panelId}])

\* open(panelId) without the check of panelId
accordionOpen_Unchecked(a, panelId) ==
    accordionNotify([a EXCEPT !.openPanels =
                         (IF a.multiple THEN @ ELSE {}) \cup {panelId}])

\* open(panelId)
accordionOpen(a, panelId) ==
    IF ~includes(a.panelIds, panelId) THEN a
    ELSE LET wasAlreadyOpen == panelId \in a.openPanels
             a1 == [a EXCEPT !.openPanels =
                        (IF a.multiple THEN @ ELSE {}) \cup {panelId}]
         IN IF ~wasAlreadyOpen \/ ~a.multiple THEN accordionNotify(a1) ELSE a1

\* close(panelId) without the test of collapsible
accordionClose_Collapses(a, panelId) ==
    IF ~includes(a.panelIds, panelId) THEN a
    ELSE IF panelId \in a.openPanels
    THEN accordionNotify([a EXCEPT !.openPanels = @ \ {panelId}])
    ELSE a

\* close(panelId)
accordionClose(a, panelId) ==
    IF ~includes(a.panelIds, panelId) THEN a
    ELSE IF panelId \in a.openPanels
            /\ (a.collapsible \/ Cardinality(a.openPanels) > 1)
    THEN accordionNotify([a EXCEPT !.openPanels = @ \ {panelId}])
    ELSE a

\* subscribe(callback): the callback is called at once with the open panels
accordionSubscribe(a, callback) ==
    [a EXCEPT !.subscribers = SetAdd(@, callback),
              !.calls = Append(@, Call(callback, a.openPanels))]

\* destroy()
accordionDestroy(a) == [a EXCEPT !.subscribers = <<>>, !.openPanels = {}]

\* createTabs(tabIds, options): throws, or returns the tabs; defaultTab 0 is
\* an options object without defaultTab
createTabs(tabIds, o) ==
    LET defaultTab == IF o.defaultTab = 0 /\ Len(tabIds) > 0
                      THEN tabIds[1] ELSE o.defaultTab
        thrown == Len(tabIds) = 0 \/ ~includes(tabIds, defaultTab)
    IN [status |-> IF thrown THEN "thrown" ELSE "live",
        tabIds |-> tabIds, defaultTab |-> o.defaultTab, onChange |-> o.onChange,
        activeTab |-> IF thrown THEN 0 ELSE defaultTab,
        subscribers |-> <<>>, calls |-> <<>>]

\* setActiveTab(tabId)
setActiveTab(b, tabId) ==
    IF ~includes(b.tabIds, tabId) THEN b
    ELSE IF tabId # b.activeTab
    THEN [b EXCEPT !.activeTab = tabId,
                   !.calls = @ \o (IF b.onChange THEN <<Call(0, tabId)>> ELSE <<>>)
                               \o [i \in 1..Len(b.subscribers) |->
                                       Call(b.subscribers[i], tabId)]]
    ELSE b

\* the tabs' subscribe(callback)
tabsSubscribe(b, callback) ==
    [b EXCEPT !.subscribers = SetAdd(@, callback),
              !.calls = Append(@, Call(callback, b.activeTab))]

\* the tabs' destroy()
tabsDestroy(b) == [b EXCEPT !.subscribers = <<>>]

(* ------------------------------------------------------------------ *)
(* createAccordion and createTabs: specification                        *)
(* ------------------------------------------------------------------ *)

\* the variables of the overlays, the focus trap, the StyleManager and the page
pageVars == <<overlayRest, trapVars, styleVars, lockVars, dropdownVars,
              bodyStyle, scrollY, timers>>

\* a page without overlay, focus trap, StyleManager or scroll lock
NoPage ==
    /\ NoOverlay
    /\ trapActive = FALSE
    /\ trapCleanup = <<>>
    /\ listeners = {}
    /\ NoFocusTrap
    /\ NoStyleManager
    /\ NoScrollLock
    /\ NoDropdown

\* the page creates one accordion or one set of tabs
InitAccordionTabs ==
    /\ NoPage
    /\ NoComponents
    /\ op = "create"

\* the accordion as a method finds it: the calls of the last step forgotten
AccCur == [accordion EXCEPT !.calls = <<>>]
TabsCur == [tabs EXCEPT !.calls = <<>>]

\* the state after the accordion's method `name`, called with id, left it a
AccCommit(a, name, id) ==
    /\ accordion' = a
    /\ op' = name
    /\ arg' = id
    /\ UNCHANGED <<tabs, toastManager, throttled, pageVars>>

TabsCommit(b, name, id) ==
    /\ tabs' = b
    /\ op' = name
    /\ arg' = id
    /\ UNCHANGED <<accordion, toastManager, throttled, pageVars>>

CreateAccordion ==
    /\ accordion.status = "none"
    /\ tabs.status = "none"
    /\ \E panelIds \in IdLists,
          o \in [collapsible : BOOLEAN, multiple : BOOLEAN,
                 defaultOpen : IdLists, onChange : BOOLEAN] :
           AccCommit(createAccordion(panelIds, o), "createAccordion", 0)

AccordionToggle ==
    /\ accordion.status = "live"
    /\ \E id \in Ids : AccCommit(accordionToggle(AccCur, id), "accordion.toggle", id)

AccordionOpen ==
    /\ accordion.status = "live"
    /\ \E id \in Ids : AccCommit(accordionOpen(AccCur, id), "accordion.open", id)

AccordionClose ==
    /\ accordion.status = "live"
    /\ \E id \in Ids : AccCommit(accordionClose(AccCur, id), "accordion.close", id)

AccordionSubscribe ==
    /\ accordion.status = "live"
    /\ \E cb \in Callbacks :
           AccCommit(accordionSubscribe(AccCur, cb), "accordion.subscribe", cb)

\* the closure subscribe() returned, called
AccordionUnsubscribe ==
    /\ accordion.status = "live"
    /\ \E cb \in Callbacks :
           /\ includes(accordion.subscribers, cb)
           /\ AccCommit([AccCur EXCEPT !.subscribers = SetDelete(@, cb)],
                        "accordion.unsubscribe", cb)

AccordionDestroy ==
    /\ accordion.status = "live"
    /\ AccCommit(accordionDestroy(AccCur), "accordion.destroy", 0)

CreateTabs ==
    /\ accordion.status = "none"
    /\ tabs.status = "none"
    /\ \E tabIds \in IdLists,
          o \in [defaultTab : 0..MaxIds, onChange : BOOLEAN] :
           TabsCommit(createTabs(tabIds, o), "createTabs", 0)

SetActiveTab ==
    /\ tabs.status = "live"
    /\ \E id \in Ids : TabsCommit(setActiveTab(TabsCur, id), "tabs.setActiveTab", id)

TabsSubscribe ==
    /\ tabs.status = "live"
    /\ \E cb \in Callbacks :
           TabsCommit(tabsSubscribe(TabsCur, cb), "tabs.subscribe", cb)

TabsUnsubscribe ==
    /\ tabs.status = "live"
    /\ \E cb \in Callbacks :
           /\ includes(tabs.subscribers, cb)
           /\ TabsCommit([TabsCur EXCEPT !.subscribers = SetDelete(@, cb)],
                         "tabs.unsubscribe", cb)

TabsDestroy ==
    /\ tabs.status = "live"
    /\ TabsCommit(tabsDestroy(TabsCur), "tabs.destroy", 0)

NextAccordionTabs ==
    \/ CreateAccordion
    \/ AccordionToggle
    \/ AccordionOpen
    \/ AccordionClose
    \/ AccordionSubscribe
    \/ AccordionUnsubscribe
    \/ AccordionDestroy
    \/ CreateTabs
    \/ SetActiveTab
    \/ TabsSubscribe
    \/ TabsUnsubscribe
    \/ TabsDestroy

SpecAccordionTabs == InitAccordionTabs /\ [][NextAccordionTabs]_vars

\* C21: createAccordion throws exactly when panelIds is empty or defaultOpen
\* holds an id that is not in panelIds, createTabs exactly when tabIds is
\* empty or the default tab is not in tabIds; a constructor that threw has
\* returned no object, so no panel is open, no tab is active and nothing is
\* ever called on it.
C21_ConstructorsThrow ==
    /\ accordion.status # "none" =>
           /\ accordion.status = "thrown" <=>
                  \/ Len(accordion.panelIds) = 0
                  \/ \E i \in 1..Len(accordion.defaultOpen) :
                         ~includes(accordion.panelIds, accordion.defaultOpen[i])
           /\ accordion.status = "thrown" =>
                  (op = "createAccordion" /\ accordion.openPanels = {}
                     /\ accordion.subscribers = <<>>)
    /\ tabs.status # "none" =>
           /\ tabs.status = "thrown" <=>
                  \/ Len(tabs.tabIds) = 0
                  \/ tabs.defaultTab # 0 /\ ~includes(tabs.tabIds, tabs.defaultTab)
           /\ tabs.status = "thrown" =>
                  (op = "createTabs" /\ tabs.activeTab = 0 /\ tabs.subscribers = <<>>)
           /\ tabs.status = "live" => includes(tabs.tabIds, tabs.activeTab)

\* createTabs has thrown for a default tab that is not among the tab ids
C21_Witness ==
    /\ op = "createTabs"
    /\ tabs.status = "thrown"
    /\ Len(tabs.tabIds) = 2
    /\ tabs.defaultTab # 0

\* the accordion's and the tabs' methods that take an id
IdMethods == {"accordion.toggle", "accordion.open", "accordion.close",
              "tabs.setActiveTab"}

\* C22: toggle, open or close of an accordion, or setActiveTab of tabs,
\* called with an id that is not in the configured list leaves the open
\* panels and the active tab as they were and calls neither onChange nor a
\* subscriber.
C22_UnknownIdIsNoOp ==
    [][ (/\ op' \in IdMethods
         /\ ~includes(accordion.panelIds \o tabs.tabIds, arg')) =>
            /\ accordion'.openPanels = accordion.openPanels
            /\ tabs'.activeTab = tabs.activeTab
            /\ accordion'.calls = <<>>
            /\ tabs'.calls = <<>> ]_vars

\* open() was called with an unknown id on an accordion that has an open
\* panel, an onChange and a subscriber
C22_Witness ==
    /\ op = "accordion.open"
    /\ ~includes(accordion.panelIds, arg)
    /\ accordion.openPanels # {}
    /\ accordion.onChange
    /\ accordion.subscribers # <<>>
    /\ accordion.calls = <<>>

(* ------------------------------------------------------------------ *)
(* Overlays created where there is no browser                           *)
(* ------------------------------------------------------------------ *)

\* isBrowser(): typeof window !== 'undefined' && typeof document !== 'undefined'
isBrowser(env) == env.window /\ env.document

\* what createModal, createDrawer and createDropdown are called with, and
\* the environment they are called in
InertOptions ==
    {o \in [kind : Kinds \cup {"dropdown"}, backdrop : BOOLEAN,
            closeOnBackdrop : BOOLEAN, closeOnEscape : BOOLEAN,
            trapFocus : BOOLEAN, animation : Animations,
            window : BOOLEAN, document : BOOLEAN] : ~isBrowser(o)}

\* a no-op open() that records the overlay as open
noop_SetsOpen(s) == [s EXCEPT !.isOpen = TRUE]

\* the methods of createNoopModalState, createNoopDrawerState and
\* createNoopDropdownState: () => {}
noop(s) == s

\* the object the SSR guard of the constructor returned: no element was
\* read or written, no listener attached
InitInert ==
    /\ options \in InertOptions
    /\ isOpen = FALSE
    /\ backdropElement = 0
    /\ unlockScroll = NoUnlock
    /\ cleanupListeners = <<>>
    /\ trapActive = FALSE
    /\ trapCleanup = <<>>
    /\ listeners = {}
    /\ bodyChildren = {}
    /\ ariaHidden = "absent"
    /\ shown = FALSE
    /\ bodyStyle = OriginalStyle
    /\ scrollY = 0
    /\ timers = <<>>
    /\ onOpenCount = 0
    /\ onCloseCount = 0
    /\ destroyed = FALSE
    /\ op = "create"
    /\ arg = 0
    /\ wasOpen = FALSE
    /\ closeCalls = 0
    /\ NoFocusTrap
    /\ NoStyleManager
    /\ NoScrollLock
    /\ NoDropdown
    /\ NoComponents

InertOpen == Commit(noop(Enter("open", 0)))

InertClose == Commit(noop(Enter("close", 0)))

InertToggle == Commit(noop(Enter("toggle", 0)))

\* update() of a modal or a drawer
InertUpdate ==
    /\ options.kind \in Kinds
    /\ Commit(noop(Enter("update", 0)))

\* focusItem(index) of a dropdown
InertFocusItem ==
    /\ options.kind = "dropdown"
    /\ \E index \in (0 - 1)..MaxItems : Commit(noop(Enter("focusItem", index)))

InertDestroy == Commit(noop(Enter("destroy", 0)))

NextInert ==
    \/ InertOpen
    \/ InertClose
    \/ InertToggle
    \/ InertUpdate
    \/ InertFocusItem
    \/ InertDestroy

SpecInert == InitInert /\ [][NextInert]_vars

\* C23: an overlay created where isBrowser() is false stays closed and
\* touches nothing, whatever is called on it: isOpen is false, the dropdown's
\* focusedIndex is -1, no listener, timer, backdrop or scroll lock exists, and
\* the element's attributes, the body's style and the focus are as they were.
C23_InertObjects ==
    ~isBrowser(options) =>
        /\ ~isOpen
        /\ focusedIndex = 0 - 1
        /\ listeners = {} /\ cleanupListeners = <<>> /\ timers = <<>>
        /\ backdropElement = 0 /\ bodyChildren = {}
        /\ ~unlockScroll.set /\ bodyStyle = OriginalStyle /\ scrollY = 0
        /\ ariaHidden = "absent" /\ ariaExpanded = "absent" /\ ~shown
        /\ ~trapActive /\ trapCleanup = <<>>
        /\ onOpenCount = 0 /\ onCloseCount = 0
        /\ NoFocusTrap

\* toggle() was called on the inert dropdown, which stayed closed
C23_Witness ==
    /\ ~isBrowser(options)
    /\ options.kind = "dropdown"
    /\ op = "toggle"
    /\ ~wasOpen
    /\ ~isOpen

(* ------------------------------------------------------------------ *)
(* createToastManager                                                   *)
(* ------------------------------------------------------------------ *)

\* the manager and the browser's timers as one value
ToastCur == toastManager @@ [timers |-> timers]

\* createContainer(): the container, created and appended to the body if
\* there is none
createContainer(s) ==
    IF s.containerElement # 0 THEN s
    ELSE [s EXCEPT !.nodes = @ + 1,
                   !.containerElement = s.nodes + 1,
                   !.attached = @ \cup {s.nodes + 1}]

\* the auto-dismiss timer of toast id is pending
AutoPending(s, id) ==
    \E i \in 1..Len(s.timers) : s.timers[i].kind = "auto" /\ s.timers[i].cyc = id

WithoutAuto(q, id) == SelectSeq(q, LAMBDA x : ~(x.kind = "auto" /\ x.cyc = id))

\* the toast's cleanup closure: clearTimeout, the listeners removed, onDismiss
\* called (an onDismiss count of 2 stands for twice or more)
toastCleanup(s, id) ==
    [s EXCEPT !.timers = WithoutAuto(@, id),
              !.items[id].listening = FALSE,
              !.items[id].onDismiss = Min(@ + 1, 2)]

\* dismiss(id): cleanup at once, the toast leaves the registry when the
\* timer of the exit animation fires
dismiss(s, id) ==
    IF ~includes(s.toasts, id) THEN s
    ELSE LET s1 == toastCleanup(s, id)
         IN [s1 EXCEPT !.timers =
                 Append(@, Timer("remove", ANIMATION_DURATION.normal, id, FALSE))]

\* for (const id of ids) dismiss(id)
RECURSIVE dismissEach(_, _)
dismissEach(s, ids) ==
    IF ids = <<>> THEN s ELSE dismissEach(dismiss(s, Head(ids)), Tail(ids))

dismissAll(s) == dismissEach(s, s.toasts)

\* the callback of dismiss()'s setTimeout that forgets the container only
removeToast_KeepsNode(s, id) ==
    LET s1 == [s EXCEPT !.items[id].parent = 0, !.toasts = SetDelete(@, id)]
    IN IF s1.toasts = <<>> /\ s1.containerElement # 0
       THEN [s1 EXCEPT !.containerElement = 0]
       ELSE s1

\* the callback of dismiss()'s setTimeout
removeToast(s, id) ==
    LET s1 == [s EXCEPT !.items[id].parent = 0, !.toasts = SetDelete(@, id)]
    IN IF s1.toasts = <<>> /\ s1.containerElement # 0
       THEN [s1 EXCEPT !.attached = @ \ {s1.containerElement},
                       !.containerElement = 0]
       ELSE s1

\* destroy()
toastDestroy(s) ==
    LET s1 == dismissAll(s)
    IN IF s1.containerElement # 0
       THEN [s1 EXCEPT !.attached = @ \ {s1.containerElement},
                       !.containerElement = 0]
       ELSE s1

\* a toast whose element was never created
NoToast ==
    [duration |-> 0, pauseOnHover |-> FALSE, remainingTime |-> 0,
     listening |-> FALSE, hovered |-> FALSE, onDismiss |-> 0, parent |-> 0]

\* show(message, {duration: ms, pauseOnHover, onDismiss}).  dismiss() removes
\* nothing from the registry before its timer fires, so the loop
\* `while (toasts.size >= maxVisible)` does not end once it is entered: the
\* first toast's cleanup runs over and over and show() does not return.
show(s, ms, pauseOnHover) ==
    LET s1 == createContainer([s EXCEPT !.toastCounter = @ + 1])
        id == s1.toastCounter
    IN IF Len(s1.toasts) >= s1.maxVisible
       THEN LET s2 == IF s1.toasts = <<>> THEN s1
                      ELSE dismiss(dismiss(s1, Head(s1.toasts)), Head(s1.toasts))
            IN [s2 EXCEPT !.hung = TRUE, !.items = Append(@, NoToast)]
       ELSE [s1 EXCEPT
               !.items = Append(@, [duration |-> ms,
                                    pauseOnHover |-> pauseOnHover,
                                    remainingTime |-> ms,
                                    listening |-> TRUE, hovered |-> FALSE,
                                    onDismiss |-> 0,
                                    parent |-> s1.containerElement]),
               !.toasts = Append(@, id),
               !.timers = IF ms > 0
                          THEN Append(@, Timer("auto", ms, id, FALSE))
                          ELSE @]

\* pauseTimer: the pending timeout is cleared and the time left is kept
pauseTimer(s, id) ==
    IF AutoPending(s, id)
    THEN LET i == CHOOSE j \in 1..Len(s.timers) :
                      s.timers[j].kind = "auto" /\ s.timers[j].cyc = id
         IN [s EXCEPT !.items[id].remainingTime = s.timers[i].rem,
                      !.timers = WithoutAuto(@, id)]
    ELSE s

\* resumeTimer
resumeTimer(s, id) ==
    IF s.items[id].duration > 0 /\ s.items[id].remainingTime > 0
    THEN [s EXCEPT !.timers =
              Append(@, Timer("auto", s.items[id].remainingTime, id, FALSE))]
    ELSE s

(* ------------------------------------------------------------------ *)
(* createToastManager: specification                                    *)
(* ------------------------------------------------------------------ *)

\* the durations toasts are shown with: none (no auto-dismiss) and the default
ToastDurations == {0, DEFAULT_DURATION}

\* a toast manager was created on a page without overlays
InitToasts ==
    /\ NoPage
    /\ accordion = NoAccordion
    /\ tabs = NoTabs
    /\ throttled = NoThrottle
    /\ toastManager \in {[NoToastManager EXCEPT !.status = "live", !.maxVisible = n] :
                             n \in 0..(MaxToasts + 1)}
    /\ op = "create"

\* the state after the step `name` on toast id (0: none) left the state s
ToastCommit(s, name, id) ==
    /\ ~toastManager.hung
    /\ Len(s.timers) <= MaxToasts + MaxPending
    /\ toastManager' = [f \in DOMAIN toastManager |-> s[f]]
    /\ timers' = s.timers
    /\ op' = name
    /\ arg' = id
    /\ UNCHANGED <<accordion, tabs, throttled, overlayRest, trapVars, styleVars,
                   lockVars, dropdownVars, bodyStyle, scrollY>>

Show ==
    /\ toastManager.toastCounter < MaxToasts
    /\ \E ms \in ToastDurations, pauseOnHover \in BOOLEAN :
           ToastCommit(show(ToastCur, ms, pauseOnHover), "show",
                       toastManager.toastCounter + 1)

\* dismiss(id), ToastItem.dismiss() or a click on the toast's dismiss button
Dismiss ==
    \E id \in 1..toastManager.toastCounter :
        ToastCommit(dismiss(ToastCur, id), "dismiss", id)

DismissAll == ToastCommit(dismissAll(ToastCur), "dismissAll", 0)

ToastDestroy == ToastCommit(toastDestroy(ToastCur), "destroy", 0)

\* the pointer enters a toast that is in the document
ToastMouseEnter ==
    \E id \in 1..toastManager.toastCounter :
        LET item == toastManager.items[id]
        IN /\ item.listening /\ item.pauseOnHover /\ ~item.hovered
           /\ item.parent \in toastManager.attached
           /\ ToastCommit([pauseTimer(ToastCur, id) EXCEPT !.items[id].hovered = TRUE],
                          "mouseenter", id)

\* the pointer leaves the toast
ToastMouseLeave ==
    \E id \in 1..toastManager.toastCounter :
        LET item == toastManager.items[id]
        IN /\ item.listening /\ item.pauseOnHover /\ item.hovered
           /\ ToastCommit([resumeTimer(ToastCur, id) EXCEPT !.items[id].hovered = FALSE],
                          "mouseleave", id)

\* the auto-dismiss timeout of a toast, or the timeout of a dismiss(), fires
ToastTimerFires ==
    /\ Due # {}
    /\ LET x == timers[NextDue]
           s == [ToastCur EXCEPT !.timers = Remove(@, NextDue)]
       IN IF x.kind = "auto"
          THEN ToastCommit(dismiss(s, x.cyc), "autoTimer", x.cyc)
          ELSE ToastCommit(removeToast(s, x.cyc), "removeTimer", x.cyc)

\* time passes, while no timer is due, until the next one is
ToastTick ==
    /\ timers # <<>>
    /\ Due = {}
    /\ ToastCommit([ToastCur EXCEPT !.timers =
                        [i \in 1..Len(timers) |-> [timers[i] EXCEPT !.rem = @ - NextDelay]]],
                   "tick", 0)

NextToasts ==
    \/ Show
    \/ Dismiss
    \/ DismissAll
    \/ ToastDestroy
    \/ ToastMouseEnter
    \/ ToastMouseLeave
    \/ ToastTimerFires
    \/ ToastTick

SpecToasts == InitToasts /\ [][NextToasts]_vars

\* C30 (the part that is an invariant): whenever the registry holds a toast,
\* the manager has a container element and it is attached to the document.
C30_ContainerWhileToasts ==
    toastManager.toasts # <<>> =>
        toastManager.containerElement \in toastManager.attached

(* ------------------------------------------------------------------ *)
(* createAccordion: multiple and collapsible                            *)
(* ------------------------------------------------------------------ *)

\* C38: an accordion created with multiple: false has at most one open
\* panel, from construction on.
C38_AtMostOneOpen ==
    (accordion.status = "live" /\ ~accordion.multiple) =>
        Cardinality(accordion.openPanels) <= 1

\* the accordion's methods that open and close panels
PanelMethods == {"accordion.toggle", "accordion.open", "accordion.close"}

\* C39: toggle, open and close of an accordion created with collapsible:
\* false never close the last open panel; toggle or close of the only open
\* panel changes nothing and calls neither onChange nor a subscriber.
C39_LastPanelStaysOpen ==
    [][ (op' \in PanelMethods /\ ~accordion.collapsible) =>
            /\ accordion.openPanels # {} => accordion'.openPanels # {}
            /\ (op' # "accordion.open" /\ accordion.openPanels = {arg'}) =>
                   /\ accordion'.openPanels = accordion.openPanels
                   /\ accordion'.calls = <<>> ]_vars

\* close() was called on the only open panel of an accordion that is not
\* collapsible and has an onChange and a subscriber
C39_Witness ==
    /\ op = "accordion.close"
    /\ ~accordion.collapsible
    /\ accordion.openPanels = {arg}
    /\ accordion.onChange
    /\ accordion.subscribers # <<>>
    /\ accordion.calls = <<>>

(* ------------------------------------------------------------------ *)
(* createToastManager: show() on a full registry, and onDismiss         *)
(* ------------------------------------------------------------------ *)

\* C36: every show() returns, also on a registry that holds maxVisible
\* toasts and with maxVisible 0.
C36_ShowReturns == [][ op' = "show" => ~toastManager'.hung ]_vars

\* the steps that dismiss toasts
DismissSteps == {"dismiss", "dismissAll", "destroy", "autoTimer"}

\* C37: whatever dismisses a toast, and however often, its onDismiss is not
\* called a second time.
C37_OnDismissOnce ==
    [][ op' \in DismissSteps =>
            \A id \in 1..toastManager.toastCounter :
                toastManager'.items[id].onDismiss <= 1 ]_vars

(* ------------------------------------------------------------------ *)
(* createDrawer: the delayed activation of the focus trap               *)
(* ------------------------------------------------------------------ *)

\* C32: the focus trap of a drawer is active only while the drawer is open.
C32_TrapOnlyWhileOpen == (options.kind = "drawer" /\ trapActive) => isOpen

(* ------------------------------------------------------------------ *)
(* createFocusTrap: the initial focus of a trap that was deactivated     *)
(* ------------------------------------------------------------------ *)

\* C33: an animation frame that finds the trap deactivated moves no focus
\* and leaves the container's tabindex alone.
C33_NoFocusAfterDeactivate ==
    [][ (op' = "frame" /\ ~trapActive) =>
            (activeElement' = activeElement /\ tabindex' = tabindex) ]_vars

(* ------------------------------------------------------------------ *)
(* createModal: what a closed modal leaves behind                       *)
(* ------------------------------------------------------------------ *)

\* C34: a modal with a backdrop that is closed, was not destroyed and has no
\* timer pending has none of its backdrop nodes in the document, and the
\* body has the inline style it had before the first open().
C34_ClosedModalLeavesNothing ==
    (/\ options.kind = "modal" /\ options.backdrop
     /\ ~destroyed /\ ~isOpen /\ timers = <<>>) =>
        (bodyChildren = {} /\ bodyStyle = OriginalStyle)

(* ------------------------------------------------------------------ *)
(* createDropdown: an open dropdown is shown                            *)
(* ------------------------------------------------------------------ *)

\* a timer of animateOut is pending
ExitPending == \E i \in 1..Len(timers) : timers[i].kind = "close"

\* C35: a dropdown that is open, was not destroyed and has no exit timer
\* pending shows its menu, and its trigger's aria-expanded is "true".
C35_OpenDropdownShown ==
    (options.kind = "dropdown" /\ isOpen /\ ~destroyed /\ ~ExitPending) =>
        (shown /\ ariaExpanded = "true")

(* ------------------------------------------------------------------ *)
(* effects/utils/performance: throttle                                  *)
(* ------------------------------------------------------------------ *)

\* the throttled function and the browser's timers as one value
ThrottleCur == [throttled EXCEPT !.ran = FALSE] @@ [timers |-> timers]

\* throttled(...args): func runs unless inThrottle; `ran` records that it
\* did, `elapsed` the time since it last did and `cancelled` a cancel() since
throttledCall(s) ==
    IF ~s.inThrottle
    THEN [s EXCEPT !.lastResult = "result",
                   !.inThrottle = TRUE,
                   !.timers = Append(@, Timer("throttle", s.limit, 0, FALSE)),
                   !.ran = TRUE, !.elapsed = 0, !.cancelled = FALSE]
    ELSE s

\* throttled.cancel()
throttledCancel(s) == [s EXCEPT !.inThrottle = FALSE, !.cancelled = TRUE]

\* the callback of the setTimeout of an execution
throttleTimeout(s) == [s EXCEPT !.inThrottle = FALSE]

(* ------------------------------------------------------------------ *)
(* throttle: specification                                              *)
(* ------------------------------------------------------------------ *)

\* throttle(func, limit) has returned
InitThrottle ==
    /\ NoPage
    /\ accordion = NoAccordion
    /\ tabs = NoTabs
    /\ toastManager = NoToastManager
    /\ throttled \in {[NoThrottle EXCEPT !.limit = n] : n \in 1..MaxLimit}
    /\ op = "create"

\* the state after the step `name` left the state s
ThrottleCommit(s, name) ==
    /\ Len(s.timers) <= MaxPending + 1
    /\ throttled' = [f \in DOMAIN throttled |-> s[f]]
    /\ timers' = s.timers
    /\ op' = name
    /\ arg' = 0
    /\ UNCHANGED <<accordion, tabs, toastManager, overlayRest, trapVars, styleVars,
                   lockVars, dropdownVars, bodyStyle, scrollY>>

ThrottledCall == ThrottleCommit(throttledCall(ThrottleCur), "throttled")

ThrottledCancel == ThrottleCommit(throttledCancel(ThrottleCur), "cancel")

\* a timer of the throttled function is due and its callback runs
ThrottleTimeout ==
    /\ Due # {}
    /\ ThrottleCommit(throttleTimeout([ThrottleCur EXCEPT !.timers = Remove(@, NextDue)]),
                      "timeout")

\* a millisecond passes while no timer is due; the time since the last
\* execution is counted up to the limit
Millisecond ==
    /\ Due = {}
    /\ throttled.elapsed < throttled.limit
    /\ ThrottleCommit([ThrottleCur EXCEPT
                          !.timers = [i \in 1..Len(timers) |->
                                         [timers[i] EXCEPT !.rem = @ - 1]],
                          !.elapsed = IF @ < 0 THEN @ ELSE @ + 1],
                      "millisecond")

NextThrottle ==
    \/ ThrottledCall
    \/ ThrottledCancel
    \/ ThrottleTimeout
    \/ Millisecond

SpecThrottle == InitThrottle /\ [][NextThrottle]_vars

\* C31: an execution of func that follows an earlier one with no cancel()
\* between the two comes at least limit milliseconds after it.
C31_ExecutionsLimitApart ==
    [][ (/\ op' = "throttled" /\ throttled'.ran
         /\ throttled.elapsed >= 0 /\ ~throttled.cancelled) =>
            throttled.elapsed >= throttled.limit ]_vars

====
